---------------------------- MODULE Spec2Model ----------------------------
(***************************************************************************)
(* Blood-pressure analyser: the photo-to-reading capture pipeline          *)
(* (App.tsx), the analysis client (llmAnalysis.ts), the image store and    *)
(* the reading repository (supabaseClient.ts, latest revision) together    *)
(* with the table constraints and row-level-security policies of the       *)
(* database schema; the profile service, the edit flow of the history view *)
(* (ReadingsList) and the averages, categories and trends that the         *)
(* dashboard and the history view derive from readings.                    *)
(*                                                                         *)
(* JavaScript objects are modelled as functions whose DOMAIN is the set of *)
(* properties that are present: a property that is undefined is absent.    *)
(* Confidence values are kept in hundredths (0.70 is 70).                  *)
(***************************************************************************)
EXTENDS Integers, Sequences, FiniteSets, TLC

\* ------------------------------------------------------------------ bounds
\* Number of captures the user starts in one behaviour.
MaxRuns == 2
\* Number of rows created in one behaviour of the repository model.
MaxRows == 2
\* Number of readings saved in one behaviour of the history view's model.
MaxListRows == 1
\* Number of changes the user makes to fields of the edit form.
MaxTyped == 1
\* Number of profiles created in one behaviour of the profile model.
MaxProfiles == 3
\* Number of readings a view holds when it derives averages and trends.
MaxShown == 3
MaxLoads == 3
MaxAuthCalls == 2
MaxEvents == 2

\* --------------------------------------------------------- program constants
\* App.tsx:31  analysisResult.confidence < 0.7
ConfidenceThreshold == 70
\* CHECK (systolic > 0 AND systolic < 300)
SystolicLimit == 300
\* CHECK (diastolic > 0 AND diastolic < 200)
DiastolicLimit == 200
\* CHECK (pulse > 0 AND pulse < 300)
PulseLimit == 300
\* CHECK (weight_kg > 0 AND weight_kg < 1000)
WeightLimit == 1000

\* ------------------------------------------------------------ value domains
Users == {"A", "B"}
NoUser == "none"
Null == "NULL"

\* Extracted (systolic, diastolic, pulse) triples a model may report: a normal
\* one, a crisis-level one and one the table's CHECK constraints reject.
Vitals == { <<118, 76, 69>>, <<185, 125, 90>>, <<0, 76, 69>> }

\* JSON values a model may put in "confidence" (besides leaving it out).
Confidences ==
    { [kind |-> "number", val |-> v] : v \in {-10, 40, 69, 70, 95, 150} }
        \cup { [kind |-> "string", val |-> 0], [kind |-> "null", val |-> 0] }

VARIABLES
    session,         \* the signed-in user of the supabase client, or NoUser
    readings,        \* table blood_pressure_readings: a set of rows
    nextId,          \* next generated row id
    bucket,          \* object keys stored in the image bucket
    clock,           \* current time
    openaiKey,       \* OPENAI_API_KEY is configured
    anthropicKey,    \* ANTHROPIC_API_KEY is configured
    pc,              \* position of the capture pipeline
    isProcessing,    \* App state isProcessing
    currentTab,      \* App state currentTab
    fileName,        \* this run's generated file name
    imageUrl,        \* this run's uploaded image URL, or Null
    analysisResult,  \* this run's AnalysisResult (<<>> before analysis)
    analysis,        \* what the analysis call of this run did
    saveStage,       \* position inside insertReading called by saveReading
    saveUser,        \* user resolved by insertReading's getUser
    calls,           \* remote calls issued by this run
    runCreated,      \* ids of the rows this run created
    failedAt,        \* step whose failure ended this run
    route,           \* branch this run took at the confidence gate
    runs,            \* captures started so far
    call,            \* the repository call in flight (repository model)
    list,            \* state of the history view (ReadingsList)
    profiles,        \* table user_profiles: a set of rows
    nextProfileId,   \* next generated profile id
    pcall,           \* the userProfileService call in flight
    shown,           \* the readings a view holds when it derives statistics
    derived,         \* what the view derived from them
    dash,            \* state of the Dashboard component and its loads
    auth             \* state of AuthProvider and of its pending callbacks

vars == << session, readings, nextId, bucket, clock, openaiKey, anthropicKey,
           pc, isProcessing, currentTab, fileName, imageUrl, analysisResult,
           analysis, saveStage, saveUser, calls, runCreated, failedAt, route,
           runs, call, list, profiles, nextProfileId, pcall, shown,
           derived, dash, auth >>

pipelineVars == << pc, isProcessing, currentTab, fileName, imageUrl,
                   analysisResult, analysis, saveStage, saveUser, calls,
                   runCreated, failedAt, route, runs, bucket, clock >>

configVars == << openaiKey, anthropicKey >>

repoVars == << call >>

lateVars == << dash, auth >>

viewVars == << list, profiles, nextProfileId, pcall, shown, derived,
               lateVars >>

\* ----------------------------------------------------------- object helpers
Has(obj, f) == f \in DOMAIN obj

\* { ...obj, f: v }
SetField(obj, f, v) ==
    [g \in DOMAIN obj \cup {f} |-> IF g = f THEN v ELSE obj[g]]

\* { ...a, ...b }
Merge(a, b) ==
    [g \in DOMAIN a \cup DOMAIN b |-> IF g \in DOMAIN b THEN b[g] ELSE a[g]]

EmptyObj == [g \in {} |-> 0]

\* The number NaN, which is what parseInt returns for a text that does not
\* start with a number. JSON.stringify writes NaN as null, so in a request it
\* is the NULL of a number column.
NaN == -1000000


\* ----------------------------------------------------------------- database
\* Schema of blood_pressure_readings and its row-level-security policies.
Columns == {"id", "user_id", "systolic", "diastolic", "pulse", "timestamp",
            "image_url", "notes"}

NotNullColumns == {"systolic", "diastolic", "pulse", "timestamp"}

NoError == "ok"

\* The database role of a request: the client sends the session's token, and
\* the anon key alone when nobody is signed in.
Role(jwt) == IF jwt \in Users THEN "authenticated" ELSE "anon"

\* POLICY "Users can access their own readings" FOR ALL TO authenticated
\*   USING (auth.uid() = user_id)
RlsUsing(row, jwt) == Role(jwt) = "authenticated" /\ row.user_id = jwt

\* Mutant: new and changed rows are not checked against the policy.
RlsWithCheckAnyOwner(row, jwt) == Role(jwt) = "authenticated"

\* POLICY "Users can insert their own readings" FOR INSERT TO authenticated
\*   WITH CHECK (auth.uid() = user_id); the FOR ALL policy has no WITH CHECK
\*   of its own, so its USING expression also checks new rows.
RlsWithCheck(row, jwt) == Role(jwt) = "authenticated" /\ row.user_id = jwt

\* Mutant: the table has no CHECK constraints.
NoCheckConstraints(row) == TRUE

\* The CHECK constraints of the three integer columns.
CheckConstraints(row) ==
    /\ row.systolic > 0 /\ row.systolic < SystolicLimit
    /\ row.diastolic > 0 /\ row.diastolic < DiastolicLimit
    /\ row.pulse > 0 /\ row.pulse < PulseLimit

\* A payload as a full row: columns the payload leaves out are NULL, the id
\* is generated (DEFAULT gen_random_uuid()).
ToRow(payload, id) ==
    [c \in Columns |->
        IF c \in DOMAIN payload THEN payload[c]
        ELSE IF c = "id" THEN id ELSE Null]

DbResult(err, table, data) == [error |-> err, table |-> table, data |-> data]

\* insert([payload]).select()
DbInsert(table, payload, jwt, id) ==
    LET row == ToRow(payload, id) IN
    IF \/ ~(NotNullColumns \subseteq DOMAIN payload)
       \/ \E c \in NotNullColumns : row[c] = NaN
        THEN DbResult("NotNullViolation", table, {})
    ELSE IF ~RlsWithCheck(row, jwt)
        THEN DbResult("RlsViolation", table, {})
    ELSE IF ~CheckConstraints(row)
        THEN DbResult("CheckViolation", table, {})
    ELSE IF \E r \in table : r.id = row.id
        THEN DbResult("UniqueViolation", table, {})
    ELSE DbResult(NoError, table \cup {row}, {row})

\* select('*') with filters: the rows the policy shows among matching, the
\* rows of the table that pass the filters.
DbSelect(table, matching, jwt) ==
    DbResult(NoError, table, {r \in matching : RlsUsing(r, jwt)})

\* delete() with filters: removes the visible rows that pass the filter, and
\* reports no error when there is none.
DbDelete(table, matching, jwt) ==
    LET hit == {r \in matching : RlsUsing(r, jwt)} IN
    DbResult(NoError, table \ hit, {})

\* update(patch) with filters, then select(): every visible row that passes
\* the filter is replaced by the patched row, which must satisfy the policy
\* and the constraints; the statement fails as a whole otherwise.
DbUpdate(table, patch, matching, jwt) ==
    LET hit == {r \in matching : RlsUsing(r, jwt)}
        new == {Merge(r, patch) : r \in hit}
        rest == table \ hit
    IN  IF \E n \in new : \E c \in NotNullColumns : n[c] = NaN
            THEN DbResult("NotNullViolation", table, {})
        ELSE IF \E n \in new : ~RlsWithCheck(n, jwt)
            THEN DbResult("RlsViolation", table, {})
        ELSE IF \E n \in new : ~CheckConstraints(n)
            THEN DbResult("CheckViolation", table, {})
        ELSE IF \/ \E n \in new : \E r \in rest : r.id = n.id
                \/ Cardinality(new) # Cardinality(hit)
            THEN DbResult("UniqueViolation", table, {})
        ELSE DbResult(NoError, rest \cup new, new)

\* .single(): exactly one row, or the error PGRST116.
Single(res) ==
    IF res.error # NoError THEN res
    ELSE IF Cardinality(res.data) # 1 THEN DbResult("NoRows", res.table, {})
    ELSE res

\* order('timestamp', { ascending }): every ordering of the rows that is
\* sorted by timestamp (rows with equal timestamps come in any order).
Ordered(rows, ascending) ==
    LET n == Cardinality(rows) IN
    { s \in [1..n -> rows] :
        /\ \A i, j \in 1..n : i # j => s[i] # s[j]
        /\ \A i \in 1..n : \A j \in 1..n : i < j =>
              IF ascending THEN s[i].timestamp <= s[j].timestamp
                           ELSE s[i].timestamp >= s[j].timestamp }

\* A request that does not reach the database changes nothing.
NetworkFailure(table) == DbResult("NetworkError", table, {})


\* --------------------------------------------------------- reading repository
\* supabase.auth.getUser(): the session's user, or none when nobody is signed
\* in or the request fails (authError).
GetUser(sess, reachable) == IF reachable /\ sess \in Users THEN sess ELSE NoUser

\* Mutant: the operation goes on without a user (no check, as in the first
\* revision of the service).
NeverNotAuthenticated(user) == FALSE

\* if (authError || !user) throw new Error('User not authenticated')
NotAuthenticated(user) == user = NoUser

AuthError == "User not authenticated"

\* Mutant: the queries do not filter on user_id (as in the first revision of
\* the service).
OwnedByAnyone(row, user) == TRUE

\* .eq('user_id', user.id)
OwnedBy(row, user) == row.user_id = user

\* const readingWithUserId = { ...reading, user_id: user.id }
ReadingWithUserId(reading, user) == SetField(reading, "user_id", user)

\* insertReading, after getUser: insert([readingWithUserId]).select().single()
InsertReading(table, reading, user, jwt, id) ==
    Single(DbInsert(table, ReadingWithUserId(reading, user), jwt, id))

\* getAllReadings, after getUser: select('*').eq('user_id', user.id)
GetAllReadings(table, user, jwt) ==
    DbSelect(table, {r \in table : OwnedBy(r, user)}, jwt)

\* getReadingById, after getUser:
\*   select('*').eq('id', id).eq('user_id', user.id).single()
GetReadingById(table, id, user, jwt) ==
    Single(DbSelect(table, {r \in table : r.id = id /\ OwnedBy(r, user)},
                    jwt))

\* deleteReading, after getUser: delete().eq('id', id).eq('user_id', user.id)
DeleteReading(table, id, user, jwt) ==
    DbDelete(table, {r \in table : r.id = id /\ OwnedBy(r, user)}, jwt)

\* updateReading, after getUser:
\*   update(reading).eq('id', id).eq('user_id', user.id).select().single()
UpdateReading(table, id, reading, user, jwt) ==
    Single(DbUpdate(table, reading,
                    {r \in table : r.id = id /\ OwnedBy(r, user)}, jwt))

\* Mutant: the end of the range is exclusive.
GetReadingsByDateRangeExclusive(table, startDate, endDate, user, jwt) ==
    DbSelect(table,
             {r \in table : /\ OwnedBy(r, user)
                            /\ r.timestamp >= startDate
                            /\ r.timestamp < endDate},
             jwt)

\* getReadingsByDateRange, after getUser: select('*').eq('user_id', user.id)
\*   .gte('timestamp', start).lte('timestamp', end)
GetReadingsByDateRange(table, startDate, endDate, user, jwt) ==
    DbSelect(table,
             {r \in table : /\ OwnedBy(r, user)
                            /\ r.timestamp >= startDate
                            /\ r.timestamp <= endDate},
             jwt)

\* ------------------------------------------------------------ analysis client
\* The JSON object in a provider's answer. systolic, diastolic, pulse and
\* notes are always present here; confidence and timestamp may be left out.
Json(v, withConfidence, c, withTimestamp, t) ==
    LET base == [systolic |-> v[1], diastolic |-> v[2], pulse |-> v[3],
                 notes |-> "display readable"]
        b1 == IF withConfidence THEN SetField(base, "confidence", c) ELSE base
    IN  IF withTimestamp THEN SetField(b1, "timestamp", t) ELSE b1

\* Answers a provider may give at time now: the HTTP status, whether the text
\* parses as JSON, and the parsed object. The model reports the current time,
\* another time (0), or no time.
Responses(now) ==
    { [ok |-> ok, parses |-> ps, json |-> Json(v, wc, c, wt, t)] :
        ok \in BOOLEAN, ps \in BOOLEAN, v \in Vitals, wc \in BOOLEAN,
        c \in Confidences, wt \in BOOLEAN, t \in {0, now} }

AnalysisOk(provider, value) ==
    [ok |-> TRUE, provider |-> provider, error |-> "none", value |-> value]

AnalysisError(provider, kind) ==
    [ok |-> FALSE, provider |-> provider, error |-> kind, value |-> EmptyObj]

\* analyzeWithOpenAI: result.timestamp = new Date().toISOString()
AnalyzeWithOpenAI(resp, now) ==
    IF ~resp.ok THEN AnalysisError("openai", "ProviderError")
    ELSE IF ~resp.parses THEN AnalysisError("openai", "ParseError")
    ELSE AnalysisOk("openai", SetField(resp.json, "timestamp", now))

\* analyzeWithAnthropic: return JSON.parse(jsonString)
AnalyzeWithAnthropic(resp, now) ==
    IF ~resp.ok THEN AnalysisError("anthropic", "ProviderError")
    ELSE IF ~resp.parses THEN AnalysisError("anthropic", "ParseError")
    ELSE AnalysisOk("anthropic", resp.json)

\* Mutant: when the first provider fails, the second one is tried.
AnalyzeWithFallback(encoded, haveOpenAI, haveAnthropic, resp, now) ==
    IF ~encoded THEN AnalysisError("none", "EncodeError")
    ELSE IF haveOpenAI /\ (AnalyzeWithOpenAI(resp, now).ok \/ ~haveAnthropic)
        THEN AnalyzeWithOpenAI(resp, now)
    ELSE IF haveAnthropic THEN AnalyzeWithAnthropic(resp, now)
    ELSE AnalysisError("none", "ConfigurationError")

\* analyzeBloodPressureImage: encode, then the first configured provider.
\* Every error is caught and rethrown as one generic error by the caller of
\* this operator; error keeps the kind that was caught.
AnalyzeBloodPressureImage(encoded, haveOpenAI, haveAnthropic, resp, now) ==
    IF ~encoded THEN AnalysisError("none", "EncodeError")
    ELSE IF haveOpenAI THEN AnalyzeWithOpenAI(resp, now)
    ELSE IF haveAnthropic THEN AnalyzeWithAnthropic(resp, now)
    ELSE AnalysisError("none", "ConfigurationError")

\* The message of the error thrown inside analyzeBloodPressureImage's try
\* block for each failure kind: the provider's own message when the answer
\* holds one, the parser's message, or the missing-key message.
ThrownInside(provider, kind) ==
    CASE kind = "ProviderError" /\ provider = "openai" ->
            "OpenAI API error: provider message"
      [] kind = "ProviderError" /\ provider = "anthropic" ->
            "Anthropic API error: provider message"
      [] kind = "ParseError" /\ provider = "openai" ->
            "Failed to parse analysis result: parser message"
      [] kind = "ParseError" /\ provider = "anthropic" ->
            "Failed to parse Anthropic response: content"
      [] kind = "ConfigurationError" -> "No LLM API key configured"
      [] OTHER -> "FileReader error"

\* The catch block of analyzeBloodPressureImage: whatever was caught, the
\* caller is thrown new Error('Failed to analyze blood pressure reading').
Rethrown(res) ==
    IF res.ok THEN "none" ELSE "Failed to analyze blood pressure reading"

\* ----------------------------------------------------------- confidence gate
\* JavaScript's value < 0.7: undefined and a non-numeric string convert to
\* NaN, which compares false; null converts to 0.
JsLessThan(obj, f, bound) ==
    IF ~Has(obj, f) THEN FALSE
    ELSE CASE obj[f].kind = "number" -> obj[f].val < bound
           [] obj[f].kind = "null"   -> 0 < bound
           [] OTHER                  -> FALSE

\* Mutant: the gate compares with <= 0.7.
LowConfidenceInclusive(result) ==
    JsLessThan(result, "confidence", ConfidenceThreshold + 1)

\* analysisResult.confidence < 0.7
LowConfidence(result) == JsLessThan(result, "confidence", ConfidenceThreshold)


\* ---------------------------------------------------------------- image store
\* generateFileName(): a timestamp and a random suffix; the n-th name.
GenerateFileName(n) == "bp-reading-" \o ToString(n) \o ".jpg"

\* Key: `blood-pressure-images/${fileName}`
ObjectKey(name) == "blood-pressure-images/" \o name

\* uploadImage's return value, the public URL of the stored object.
PublicUrl(name) == "https://bucket.s3/" \o ObjectKey(name)

\* ------------------------------------------------------------ capture pipeline
NoAnalysis == [provider |-> "none", error |-> "none", doneAt |-> 0,
               json |-> EmptyObj, thrown |-> "none"]

NoCalls == [upload |-> 0, analyze |-> 0, insert |-> 0]

Terminal == {"Saved", "Cancelled", "Failed"}

\* Mutant: saveReading forgets the image URL.
SavePayloadNoImage(result, url) ==
    LET keep == DOMAIN result \cap
                  {"systolic", "diastolic", "pulse", "timestamp", "notes"}
    IN  [f \in keep |-> result[f]]

\* The object saveReading hands to insertReading; properties whose value is
\* undefined are not sent.
SavePayload(result, url) ==
    LET keep == DOMAIN result \cap
                  {"systolic", "diastolic", "pulse", "timestamp", "notes"}
    IN  [f \in keep \cup {"image_url"} |->
            IF f = "image_url" THEN url ELSE result[f]]

\* Mutant: a failed run deletes the object it uploaded.
FailWithRollback(step) ==
    /\ pc' = "Failed"
    /\ failedAt' = step
    /\ isProcessing' = FALSE
    /\ saveStage' = "idle"
    /\ bucket' = bucket \ {ObjectKey(fileName)}

\* Mutant: the finally block is missing, a failed run leaves isProcessing as
\* it was.
FailKeepsProcessing(step) ==
    /\ pc' = "Failed"
    /\ failedAt' = step
    /\ isProcessing' = isProcessing
    /\ saveStage' = "idle"
    /\ bucket' = bucket

\* Mutant: a failed step puts the run back at its upload instead of ending it.
FailAndRetry(step) ==
    /\ pc' = "Uploading"
    /\ failedAt' = step
    /\ isProcessing' = TRUE
    /\ saveStage' = "idle"
    /\ bucket' = bucket

\* The catch and finally blocks of handlePhotoTaken and the catch block of
\* saveReading: an error alert, and isProcessing back to false. Nothing is
\* done about the object that was uploaded.
Fail(step) ==
    /\ pc' = "Failed"
    /\ failedAt' = step
    /\ isProcessing' = FALSE
    /\ saveStage' = "idle"
    /\ bucket' = bucket

\* Mutant: upload and analysis are started together.
CallsAtStartConcurrent == [NoCalls EXCEPT !.upload = 1, !.analyze = 1]

\* uploadImage is called first, alone: await s3Service.uploadImage(...)
CallsAtStart == [NoCalls EXCEPT !.upload = 1]

\* handlePhotoTaken(uri) up to its first await: uploadImage is called.
StartCapture ==
    /\ pc \in Terminal \cup {"Idle"}
    /\ currentTab = "camera"
    /\ ~isProcessing
    /\ runs < MaxRuns
    /\ runs' = runs + 1
    /\ clock' = clock + 1
    /\ isProcessing' = TRUE
    /\ fileName' = GenerateFileName(runs + 1)
    /\ pc' = "Uploading"
    /\ imageUrl' = Null
    /\ analysisResult' = EmptyObj
    /\ analysis' = NoAnalysis
    /\ saveStage' = "idle"
    /\ saveUser' = NoUser
    /\ calls' = CallsAtStart
    /\ runCreated' = {}
    /\ failedAt' = "none"
    /\ route' = "none"
    /\ UNCHANGED << session, readings, nextId, bucket, currentTab,
                    configVars, viewVars, repoVars >>

\* uploadImage settles; on success analyzeBloodPressureImage is called.
UploadDone ==
    /\ pc = "Uploading"
    /\ \E stored \in BOOLEAN :
        IF stored
        THEN /\ bucket' = bucket \cup {ObjectKey(fileName)}
             /\ imageUrl' = PublicUrl(fileName)
             /\ pc' = "Analyzing"
             /\ calls' = [calls EXCEPT !.analyze = @ + 1]
             /\ UNCHANGED << failedAt, isProcessing, saveStage >>
        ELSE /\ Fail("upload")
             /\ UNCHANGED << imageUrl, calls >>
    /\ UNCHANGED << session, readings, nextId, clock, currentTab, fileName,
                    analysisResult, analysis, saveUser, runCreated, route,
                    runs, configVars, viewVars, repoVars >>

\* analyzeBloodPressureImage settles; the confidence gate follows.
AnalyzeDone ==
    /\ pc = "Analyzing"
    /\ clock' = clock + 1
    /\ \E encoded \in BOOLEAN : \E resp \in Responses(clock + 1) :
        LET res == AnalyzeBloodPressureImage(encoded, openaiKey, anthropicKey,
                                             resp, clock + 1)
        IN  IF res.ok
            THEN /\ analysisResult' = res.value
                 /\ analysis' = [provider |-> res.provider, error |-> "none",
                                 doneAt |-> clock + 1, json |-> resp.json,
                                 thrown |-> Rethrown(res)]
                 /\ IF LowConfidence(res.value)
                    THEN /\ pc' = "AwaitingConfirmation"
                         /\ route' = "awaiting"
                         /\ isProcessing' = FALSE
                         /\ UNCHANGED << saveStage, calls >>
                    ELSE /\ pc' = "AutoSave"
                         /\ route' = "auto"
                         /\ saveStage' = "auth"
                         /\ calls' = [calls EXCEPT !.insert = @ + 1]
                         /\ UNCHANGED isProcessing
                 /\ UNCHANGED << failedAt, bucket >>
            ELSE /\ analysis' = [provider |-> res.provider,
                                 error |-> res.error, doneAt |-> clock + 1,
                                 json |-> EmptyObj, thrown |-> Rethrown(res)]
                 /\ Fail("analysis")
                 /\ UNCHANGED << analysisResult, calls, route >>
    /\ UNCHANGED << session, readings, nextId, currentTab, fileName,
                    imageUrl, saveUser, runCreated, runs, configVars, viewVars,
                    repoVars >>

\* The Cancel button of the low-confidence alert.
\* Mutant: cancelling removes the uploaded object.
CancelEffectsRollback ==
    /\ bucket' = bucket \ {ObjectKey(fileName)}
    /\ readings' = readings
    /\ nextId' = nextId
    /\ runCreated' = runCreated
    /\ calls' = calls

\* { text: 'Cancel', style: 'cancel' } has no onPress: nothing else happens.
CancelEffects ==
    /\ bucket' = bucket
    /\ readings' = readings
    /\ nextId' = nextId
    /\ runCreated' = runCreated
    /\ calls' = calls

UserCancel ==
    /\ pc = "AwaitingConfirmation"
    /\ pc' = "Cancelled"
    /\ route' = "cancel"
    /\ CancelEffects
    /\ UNCHANGED << session, clock, isProcessing, currentTab, fileName,
                    imageUrl, analysisResult, analysis, saveStage, saveUser,
                    failedAt, runs, configVars, viewVars, repoVars >>

\* The Save Anyway button: onPress: () => saveReading(analysisResult, imageUrl)
UserSaveAnyway ==
    /\ pc = "AwaitingConfirmation"
    /\ pc' = "ConfirmedSave"
    /\ route' = "saveAnyway"
    /\ saveStage' = "auth"
    /\ calls' = [calls EXCEPT !.insert = @ + 1]
    /\ UNCHANGED << session, readings, nextId, bucket, clock, isProcessing,
                    currentTab, fileName, imageUrl, analysisResult, analysis,
                    saveUser, runCreated, failedAt, runs, configVars, viewVars,
                    repoVars >>

\* saveReading: insertReading's getUser settles.
SaveGetUser ==
    /\ pc \in {"AutoSave", "ConfirmedSave"}
    /\ saveStage = "auth"
    /\ \E reachable \in BOOLEAN :
        LET user == GetUser(session, reachable) IN
        IF NotAuthenticated(user)
        THEN /\ Fail("save")
             /\ UNCHANGED saveUser
        ELSE /\ saveStage' = "query"
             /\ saveUser' = user
             /\ UNCHANGED << pc, failedAt, isProcessing, bucket >>
    /\ UNCHANGED << session, readings, nextId, clock, currentTab,
                    fileName, imageUrl, analysisResult, analysis, calls,
                    runCreated, route, runs, configVars, viewVars, repoVars >>

\* saveReading: insertReading's insert settles; on success the alert and
\* setCurrentTab('readings'), then handlePhotoTaken's finally block.
SaveInsert ==
    /\ pc \in {"AutoSave", "ConfirmedSave"}
    /\ saveStage = "query"
    /\ \E reached \in BOOLEAN :
        LET res == IF reached
                   THEN InsertReading(readings,
                                      SavePayload(analysisResult, imageUrl),
                                      saveUser, session, nextId)
                   ELSE NetworkFailure(readings)
        IN  /\ readings' = res.table
            /\ runCreated' = runCreated \cup {r.id : r \in res.table \ readings}
            /\ nextId' = IF res.table = readings THEN nextId ELSE nextId + 1
            /\ IF res.error = NoError
               THEN /\ pc' = "Saved"
                    /\ currentTab' = "readings"
                    /\ isProcessing' = FALSE
                    /\ saveStage' = "idle"
                    /\ UNCHANGED << failedAt, bucket >>
               ELSE /\ Fail("save")
                    /\ UNCHANGED currentTab
    /\ UNCHANGED << session, clock, fileName, imageUrl, analysisResult,
                    analysis, saveUser, calls, route, runs, configVars, viewVars,
                    repoVars >>

\* A tab of the header is pressed (the header is not rendered while
\* isProcessing, and the alert is modal).
SwitchTab ==
    /\ ~isProcessing
    /\ pc # "AwaitingConfirmation"
    /\ \E tab \in {"camera", "readings", "dashboard"} :
        /\ tab # currentTab
        /\ currentTab' = tab
    /\ UNCHANGED << session, readings, nextId, bucket, clock, pc,
                    isProcessing, fileName, imageUrl, analysisResult,
                    analysis, saveStage, saveUser, calls, runCreated,
                    failedAt, route, runs, configVars, viewVars, repoVars >>

\* ------------------------------------------------------------------- session
\* A user signs in on this client.
SignIn ==
    /\ session = NoUser
    /\ \E u \in Users : session' = u
    /\ UNCHANGED << readings, nextId, pipelineVars, configVars, viewVars, repoVars >>

\* The user signs out, or the session ends.
SignOut ==
    /\ session \in Users
    /\ session' = NoUser
    /\ UNCHANGED << readings, nextId, pipelineVars, configVars, viewVars, repoVars >>

\* ------------------------------------------------------------ repository calls
\* One call of bloodPressureService at a time: it is issued, its getUser
\* settles, and then its query settles. The session may change in between;
\* the query carries the token of the session at the time it is sent.
Times == {1, 2}

NoArg == [id |-> 0, reading |-> EmptyObj, startDate |-> 0, endDate |-> 0]

NoCall == [op |-> "none", stage |-> "idle", arg |-> NoArg, user |-> NoUser,
           error |-> NoError, data |-> << >>, queries |-> 0]

\* Readings a caller may pass to insertReading: valid values at either
\* time, values the table rejects, and a reading that names user B as owner.
NewReadings ==
    LET Base(v, t) == [systolic |-> v[1], diastolic |-> v[2], pulse |-> v[3],
                       timestamp |-> t]
    IN  { Base(<<118, 76, 69>>, t) : t \in Times }
          \cup { Base(<<0, 76, 69>>, 1),
                 SetField(Base(<<118, 76, 69>>, 1), "user_id", "B") }

\* Patches a caller may pass to updateReading: a valid and a rejected value,
\* another timestamp, and user B as owner.
Patches ==
    { [systolic |-> 130], [systolic |-> 300], [timestamp |-> 2],
      [user_id |-> "B"] }

\* updateReading takes a Partial<BloodPressureReading>, which may hold any
\* property of a reading: also an id.
AnyPatches == Patches \cup { [id |-> MaxRows + 1] }

\* Ids a caller may name: the generated ones and one that never exists.
CallIds == 1..(MaxRows + 1)

CallIdle == call.stage \in {"idle", "done"}

Begin(op, arg) ==
    /\ call' = [NoCall EXCEPT !.op = op, !.stage = "auth", !.arg = arg]
    /\ UNCHANGED << session, readings, nextId, pipelineVars, configVars, viewVars >>

StartInsert ==
    /\ CallIdle
    /\ nextId <= MaxRows
    /\ \E reading \in NewReadings :
          Begin("insertReading", [NoArg EXCEPT !.reading = reading])

StartGetAll ==
    /\ CallIdle
    /\ Begin("getAllReadings", NoArg)

StartGetById ==
    /\ CallIdle
    /\ \E id \in CallIds :
          Begin("getReadingById", [NoArg EXCEPT !.id = id])

StartDelete ==
    /\ CallIdle
    /\ \E id \in CallIds :
          Begin("deleteReading", [NoArg EXCEPT !.id = id])

StartUpdate ==
    /\ CallIdle
    /\ \E id \in CallIds : \E patch \in Patches :
          Begin("updateReading", [NoArg EXCEPT !.id = id, !.reading = patch])

\* updateReading(id, reading) with any Partial<BloodPressureReading>.
StartUpdateAny ==
    /\ CallIdle
    /\ \E id \in CallIds : \E patch \in AnyPatches :
          Begin("updateReading", [NoArg EXCEPT !.id = id, !.reading = patch])

StartDateRange ==
    /\ CallIdle
    /\ \E startDate \in Times : \E endDate \in Times :
          Begin("getReadingsByDateRange",
                [NoArg EXCEPT !.startDate = startDate, !.endDate = endDate])

\* The first await of every operation: supabase.auth.getUser().
GetUserDone ==
    /\ call.stage = "auth"
    /\ \E reachable \in BOOLEAN :
        LET user == GetUser(session, reachable) IN
        IF NotAuthenticated(user)
        THEN call' = [call EXCEPT !.stage = "done", !.error = AuthError]
        ELSE call' = [call EXCEPT !.stage = "query", !.user = user]
    /\ UNCHANGED << session, readings, nextId, pipelineVars, configVars, viewVars >>

\* The query of the call settles with res; rows is the data handed back.
Settle(res, rows) ==
    /\ readings' = res.table
    /\ call' = [call EXCEPT !.stage = "done", !.error = res.error,
                            !.data = rows, !.queries = @ + 1]
    /\ UNCHANGED << session, pipelineVars, configVars, viewVars >>

Querying(op) == call.stage = "query" /\ call.op = op

InsertQuery ==
    /\ Querying("insertReading")
    /\ \E reached \in BOOLEAN :
        LET res == IF reached
                   THEN InsertReading(readings, call.arg.reading, call.user,
                                      session, nextId)
                   ELSE NetworkFailure(readings)
        IN  /\ nextId' = IF res.table = readings THEN nextId ELSE nextId + 1
            /\ \E rows \in Ordered(res.data, TRUE) : Settle(res, rows)

GetAllQuery ==
    /\ Querying("getAllReadings")
    /\ \E reached \in BOOLEAN :
        LET res == IF reached THEN GetAllReadings(readings, call.user, session)
                   ELSE NetworkFailure(readings)
        IN  \E rows \in Ordered(res.data, FALSE) : Settle(res, rows)
    /\ UNCHANGED nextId

GetByIdQuery ==
    /\ Querying("getReadingById")
    /\ \E reached \in BOOLEAN :
        LET res == IF reached
                   THEN GetReadingById(readings, call.arg.id, call.user,
                                       session)
                   ELSE NetworkFailure(readings)
        IN  \E rows \in Ordered(res.data, TRUE) : Settle(res, rows)
    /\ UNCHANGED nextId

DeleteQuery ==
    /\ Querying("deleteReading")
    /\ \E reached \in BOOLEAN :
        LET res == IF reached
                   THEN DeleteReading(readings, call.arg.id, call.user,
                                      session)
                   ELSE NetworkFailure(readings)
        IN  Settle(res, << >>)
    /\ UNCHANGED nextId

UpdateQuery ==
    /\ Querying("updateReading")
    /\ \E reached \in BOOLEAN :
        LET res == IF reached
                   THEN UpdateReading(readings, call.arg.id, call.arg.reading,
                                      call.user, session)
                   ELSE NetworkFailure(readings)
        IN  \E rows \in Ordered(res.data, TRUE) : Settle(res, rows)
    /\ UNCHANGED nextId

DateRangeQuery ==
    /\ Querying("getReadingsByDateRange")
    /\ \E reached \in BOOLEAN :
        LET res == IF reached
                   THEN GetReadingsByDateRange(readings, call.arg.startDate,
                                               call.arg.endDate, call.user,
                                               session)
                   ELSE NetworkFailure(readings)
        IN  \E rows \in Ordered(res.data, TRUE) : Settle(res, rows)
    /\ UNCHANGED nextId

\* --------------------------------------------------------------- history view
\* ReadingsList (latest revision). The texts of the edit form are sequences
\* of characters.
DigitChars == << "0", "1", "2", "3", "4", "5", "6", "7", "8", "9" >>

IsDigit(ch) == \E d \in 1..10 : DigitChars[d] = ch

DigitValue(ch) == (CHOOSE d \in 1..10 : DigitChars[d] = ch) - 1

\* Number.prototype.toString() of an integer.
RECURSIVE NumberToString(_)
NumberToString(n) ==
    IF n < 0 THEN << "-" >> \o NumberToString(0 - n)
    ELSE IF n < 10 THEN << DigitChars[n + 1] >>
    ELSE NumberToString(n \div 10) \o << DigitChars[(n % 10) + 1] >>

\* The value of a text of digits.
RECURSIVE DigitsToNumber(_)
DigitsToNumber(ds) ==
    IF ds = << >> THEN 0
    ELSE 10 * DigitsToNumber(SubSeq(ds, 1, Len(ds) - 1))
            + DigitValue(ds[Len(ds)])

\* The text without its leading white space.
RECURSIVE TrimStart(_)
TrimStart(text) ==
    IF text # << >> /\ Head(text) = " " THEN TrimStart(Tail(text)) ELSE text

\* The longest prefix of the text that consists of digits.
LeadingDigits(text) ==
    LET n == CHOOSE k \in 0..Len(text) :
                 /\ \A i \in 1..k : IsDigit(text[i])
                 /\ k < Len(text) => ~IsDigit(text[k + 1])
    IN  SubSeq(text, 1, n)

\* parseInt(text): leading white space is skipped, a sign is read, then the
\* digits up to the first other character; NaN when there is no digit.
ParseInt(text) ==
    LET t == TrimStart(text)
        signed == t # << >> /\ Head(t) \in {"-", "+"}
        ds == LeadingDigits(IF signed THEN Tail(t) ELSE t)
    IN  IF ds = << >> THEN NaN
        ELSE IF signed /\ Head(t) = "-" THEN 0 - DigitsToNumber(ds)
        ELSE DigitsToNumber(ds)

\* Texts the user may leave in a field of the edit form: nothing, a valid
\* value after a blank and before a unit, a value the table rejects, and a
\* negative value.
FormTexts ==
    { << >>, << " ", "1", "3", "0", "m" >>, << "3", "0", "0" >>,
      << "-", "5" >> }

\* Analysis results the capture tab saves while the history exists: one the
\* table accepts and one it rejects.
ListVitals == { <<118, 76, 69>>, <<0, 76, 69>> }

FormFields == {"systolic", "diastolic", "pulse"}

NoForm == [systolic |-> << >>, diastolic |-> << >>, pulse |-> << >>,
           notes |-> ""]

\* useState: readings [], editingReading null, editForm all '', and what the
\* view is waiting for and the last alert it showed.
\* gone and targetGone are history: the ids another device has deleted, and
\* whether the reading an edit or delete names was among them when the call
\* was made.
NoList == [readings |-> << >>, editingReading |-> EmptyObj,
           editForm |-> NoForm, stage |-> "idle", alert |-> "none",
           typed |-> 0, deleteConfirmReading |-> EmptyObj, gone |-> {},
           targetGone |-> FALSE]

\* reading.notes || ''
NotesOrEmpty(reading) == IF reading.notes = Null THEN "" ELSE reading.notes

\* openEditModal's setEditForm({...})
EditFormOf(reading) ==
    [systolic |-> NumberToString(reading.systolic),
     diastolic |-> NumberToString(reading.diastolic),
     pulse |-> NumberToString(reading.pulse),
     notes |-> NotesOrEmpty(reading)]

\* const updatedReading = { ...editingReading, systolic: parseInt(...), ... }
UpdatedReading(editingReading, editForm) ==
    Merge(editingReading,
          [systolic |-> ParseInt(editForm.systolic),
           diastolic |-> ParseInt(editForm.diastolic),
           pulse |-> ParseInt(editForm.pulse),
           notes |-> editForm.notes])

\* The view is not waiting for a call of its own.
ListIdle == list.stage = "idle"

ListUnchanged ==
    UNCHANGED << session, readings, nextId, pipelineVars, configVars,
                 profiles, nextProfileId, pcall, shown, derived, lateVars >>

\* saveReading of the capture tab while the history exists: insertReading
\* with the values of an analysis result, at the time of the save.
StartSave ==
    /\ CallIdle
    /\ ListIdle
    /\ nextId <= MaxListRows
    /\ \E v \in ListVitals :
          call' = [NoCall EXCEPT
                     !.op = "insertReading", !.stage = "auth",
                     !.arg = [NoArg EXCEPT !.reading =
                                SavePayload(Json(v, FALSE, 0, TRUE, nextId),
                                            Null)]]
    /\ UNCHANGED list
    /\ ListUnchanged

\* loadReadings (on mount and on refresh): getAllReadings is called.
LoadReadings ==
    /\ CallIdle
    /\ ListIdle
    /\ call' = [NoCall EXCEPT !.op = "getAllReadings", !.stage = "auth"]
    /\ list' = [list EXCEPT !.stage = "loading"]
    /\ ListUnchanged

\* loadReadings after its await: setReadings(data), or the error alert.
LoadSettled ==
    /\ list.stage = "loading"
    /\ call.stage = "done"
    /\ list' = IF call.error = NoError
               THEN [list EXCEPT !.stage = "idle", !.readings = call.data]
               ELSE [list EXCEPT !.stage = "idle",
                                 !.alert = "Failed to load readings"]
    /\ UNCHANGED call
    /\ ListUnchanged

\* openEditModal(reading) for a reading of the list.
OpenEditModal ==
    /\ ListIdle
    /\ list.editingReading = EmptyObj
    /\ \E i \in 1..Len(list.readings) :
          list' = [list EXCEPT !.editingReading = list.readings[i],
                               !.editForm = EditFormOf(list.readings[i])]
    /\ UNCHANGED call
    /\ ListUnchanged

\* onChangeText of a field of the edit form.
TypeField ==
    /\ ListIdle
    /\ list.editingReading # EmptyObj
    /\ list.typed < MaxTyped
    /\ \E f \in FormFields : \E text \in FormTexts :
          /\ list.editForm[f] # text
          /\ list' = [list EXCEPT !.editForm[f] = text, !.typed = @ + 1]
    /\ UNCHANGED call
    /\ ListUnchanged

\* closeEditModal by the Cancel button: setEditingReading(null).
CloseEditModal ==
    /\ ListIdle
    /\ list.editingReading # EmptyObj
    /\ list' = [list EXCEPT !.editingReading = EmptyObj]
    /\ UNCHANGED call
    /\ ListUnchanged

\* saveEditedReading up to its first await: updateReading is called.
SaveEditedReading ==
    /\ CallIdle
    /\ ListIdle
    /\ list.editingReading # EmptyObj
    /\ call' = [NoCall EXCEPT
                  !.op = "updateReading", !.stage = "auth",
                  !.arg = [NoArg EXCEPT
                             !.id = list.editingReading.id,
                             !.reading = UpdatedReading(list.editingReading,
                                                        list.editForm)]]
    /\ list' = [list EXCEPT !.stage = "updating",
                            !.targetGone = list.editingReading.id \in list.gone]
    /\ ListUnchanged

\* saveEditedReading after updateReading: closeEditModal and loadReadings,
\* or the catch block's alert.
UpdateSettled ==
    /\ list.stage = "updating"
    /\ call.stage = "done"
    /\ IF call.error = NoError
       THEN /\ list' = [list EXCEPT !.stage = "reloading",
                                    !.editingReading = EmptyObj]
            /\ call' = [NoCall EXCEPT !.op = "getAllReadings",
                                      !.stage = "auth"]
       ELSE /\ list' = [list EXCEPT !.stage = "idle",
                                    !.alert = "Failed to update reading"]
            /\ UNCHANGED call
    /\ ListUnchanged

\* saveEditedReading after loadReadings, which catches its own error: the
\* success alert.
ReloadSettled ==
    /\ list.stage = "reloading"
    /\ call.stage = "done"
    /\ list' = [list EXCEPT
                  !.stage = "idle",
                  !.readings = IF call.error = NoError THEN call.data ELSE @,
                  !.alert = "Reading updated successfully"]
    /\ UNCHANGED call
    /\ ListUnchanged

\* showDeleteConfirmation(reading) for a reading of the list.
ShowDeleteConfirmation ==
    /\ ListIdle
    /\ list.editingReading = EmptyObj
    /\ list.deleteConfirmReading = EmptyObj
    /\ \E i \in 1..Len(list.readings) :
          list' = [list EXCEPT !.deleteConfirmReading = list.readings[i]]
    /\ UNCHANGED call
    /\ ListUnchanged

\* hideDeleteConfirmation by the Cancel button: setDeleteConfirmReading(null).
HideDeleteConfirmation ==
    /\ ListIdle
    /\ list.deleteConfirmReading # EmptyObj
    /\ list' = [list EXCEPT !.deleteConfirmReading = EmptyObj]
    /\ UNCHANGED call
    /\ ListUnchanged

\* Mutant: the reading is taken off the list when the delete is sent.
ConfirmDeleteOptimistic ==
    /\ CallIdle
    /\ ListIdle
    /\ list.deleteConfirmReading # EmptyObj
    /\ call' = [NoCall EXCEPT
                  !.op = "deleteReading", !.stage = "auth",
                  !.arg = [NoArg EXCEPT !.id = list.deleteConfirmReading.id]]
    /\ list' = [list EXCEPT
                  !.stage = "deleting",
                  !.readings = SelectSeq(@, LAMBDA r :
                                  r.id # list.deleteConfirmReading.id),
                  !.targetGone = list.deleteConfirmReading.id \in list.gone]
    /\ ListUnchanged

\* confirmDelete up to its first await: deleteReading is called.
ConfirmDelete ==
    /\ CallIdle
    /\ ListIdle
    /\ list.deleteConfirmReading # EmptyObj
    /\ call' = [NoCall EXCEPT
                  !.op = "deleteReading", !.stage = "auth",
                  !.arg = [NoArg EXCEPT !.id = list.deleteConfirmReading.id]]
    /\ list' = [list EXCEPT
                  !.stage = "deleting",
                  !.targetGone = list.deleteConfirmReading.id \in list.gone]
    /\ ListUnchanged

\* confirmDelete after deleteReading: hideDeleteConfirmation and
\* loadReadings, or the catch block's alert.
DeleteSettled ==
    /\ list.stage = "deleting"
    /\ call.stage = "done"
    /\ IF call.error = NoError
       THEN /\ list' = [list EXCEPT !.stage = "deleteReloading",
                                    !.deleteConfirmReading = EmptyObj]
            /\ call' = [NoCall EXCEPT !.op = "getAllReadings",
                                      !.stage = "auth"]
       ELSE /\ list' = [list EXCEPT !.stage = "idle",
                                    !.alert = "Failed to delete reading"]
            /\ UNCHANGED call
    /\ ListUnchanged

\* confirmDelete after loadReadings: setReadings(data), or loadReadings'
\* own error alert.
DeleteReloadSettled ==
    /\ list.stage = "deleteReloading"
    /\ call.stage = "done"
    /\ list' = IF call.error = NoError
               THEN [list EXCEPT !.stage = "idle", !.readings = call.data]
               ELSE [list EXCEPT !.stage = "idle",
                                 !.alert = "Failed to load readings"]
    /\ UNCHANGED call
    /\ ListUnchanged

\* Another device of the same user deletes one of the user's readings:
\* its deleteReading reaches the table.
RemoteDelete ==
    /\ \E r \in readings :
          /\ readings' = DeleteReading(readings, r.id, r.user_id,
                                       r.user_id).table
          /\ list' = [list EXCEPT !.gone = @ \cup {r.id}]
    /\ UNCHANGED << session, nextId, call, pipelineVars, configVars, profiles,
                    nextProfileId, pcall, shown, derived, lateVars >>

\* ------------------------------------------------------------ profile service
\* Table user_profiles, with the columns weight_kg and gender of a profile,
\* and userProfileService.
GenderValues == {"male", "female", "other", "prefer_not_to_say"}

\* CHECK (weight_kg > 0 AND weight_kg < 1000), CHECK (gender IN (...))
ProfileCheckConstraints(row) ==
    /\ row.weight_kg > 0 /\ row.weight_kg < WeightLimit
    /\ row.gender \in GenderValues

\* POLICY "Users can manage their own profile" FOR ALL TO authenticated
\*   USING (auth.uid() = user_id), which also checks new rows.
ProfileRls(row, jwt) == Role(jwt) = "authenticated" /\ row.user_id = jwt

\* Mutant: insert(profileWithUserId) in place of the upsert.
DbInsertProfile(table, payload, jwt, id) ==
    LET row == SetField(payload, "id", id) IN
    IF ~ProfileRls(row, jwt)
        THEN DbResult("RlsViolation", table, {})
    ELSE IF ~ProfileCheckConstraints(row)
        THEN DbResult("CheckViolation", table, {})
    ELSE IF \E r \in table : r.user_id = row.user_id
        THEN DbResult("UniqueViolation", table, {})
    ELSE DbResult(NoError, table \cup {row}, {row})

\* upsert(payload, { onConflict: 'user_id', ignoreDuplicates: false })
\* .select(): INSERT ... ON CONFLICT (user_id) DO UPDATE. The row to insert
\* must satisfy the policy; without a row of that user_id (UNIQUE(user_id))
\* it is inserted with a generated id, and otherwise the existing row takes
\* the payload's values and keeps its id.
DbUpsert(table, payload, jwt, id) ==
    LET row == SetField(payload, "id", id)
        conflict == {r \in table : r.user_id = payload.user_id}
        new == {Merge(r, payload) : r \in conflict}
    IN  IF ~ProfileRls(row, jwt)
            THEN DbResult("RlsViolation", table, {})
        ELSE IF ~ProfileCheckConstraints(row)
            THEN DbResult("CheckViolation", table, {})
        ELSE IF conflict = {}
            THEN DbResult(NoError, table \cup {row}, {row})
        ELSE IF \E r \in conflict : ~ProfileRls(r, jwt)
            THEN DbResult("RlsViolation", table, {})
        ELSE DbResult(NoError, (table \ conflict) \cup new, new)

\* const profileWithUserId = { ...profile, user_id: user.id }
ProfileWithUserId(profile, user) == SetField(profile, "user_id", user)

\* Mutant: upsertProfile inserts.
UpsertProfileAsInsert(table, profile, user, jwt, id) ==
    Single(DbInsertProfile(table, ProfileWithUserId(profile, user), jwt, id))

\* upsertProfile, after getUser: upsert(...).select().single()
UpsertProfile(table, profile, user, jwt, id) ==
    Single(DbUpsert(table, ProfileWithUserId(profile, user), jwt, id))

\* getProfile, after getUser: select('*').eq('user_id', user.id).single();
\* the error PGRST116 is turned into the result null.
GetProfile(table, user, jwt) ==
    LET res == Single(DbResult(NoError, table,
                               {r \in table : /\ r.user_id = user
                                              /\ ProfileRls(r, jwt)}))
    IN  IF res.error = "NoRows"
        THEN [error |-> NoError, table |-> table, data |-> {},
              returned |-> "null"]
        ELSE [error |-> res.error, table |-> table, data |-> res.data,
              returned |-> "profile"]

\* deleteProfile, after getUser: delete().eq('user_id', user.id)
DeleteProfile(table, user, jwt) ==
    DbResult(NoError,
             table \ {r \in table : r.user_id = user /\ ProfileRls(r, jwt)},
             {})

\* Profiles a caller may pass to upsertProfile: two valid ones, one the
\* table rejects, and one that names user B as owner.
NewProfiles ==
    { [weight_kg |-> 70, gender |-> "female"],
      [weight_kg |-> 80, gender |-> "other"],
      [weight_kg |-> 0, gender |-> "other"],
      [weight_kg |-> 70, gender |-> "other", user_id |-> "B"] }

NoProfileCall == [op |-> "none", stage |-> "idle", arg |-> EmptyObj,
                  user |-> NoUser, error |-> NoError, data |-> {},
                  returned |-> "none"]

ProfileCallIdle == pcall.stage \in {"idle", "done"}

ProfileUnchanged ==
    UNCHANGED << session, readings, nextId, pipelineVars, configVars,
                 repoVars, list, shown, derived, lateVars >>

StartGetProfile ==
    /\ ProfileCallIdle
    /\ pcall' = [NoProfileCall EXCEPT !.op = "getProfile", !.stage = "auth"]
    /\ UNCHANGED << profiles, nextProfileId >>
    /\ ProfileUnchanged

StartUpsertProfile ==
    /\ ProfileCallIdle
    /\ nextProfileId <= MaxProfiles
    /\ \E profile \in NewProfiles :
          pcall' = [NoProfileCall EXCEPT !.op = "upsertProfile",
                                         !.stage = "auth", !.arg = profile]
    /\ UNCHANGED << profiles, nextProfileId >>
    /\ ProfileUnchanged

StartDeleteProfile ==
    /\ ProfileCallIdle
    /\ pcall' = [NoProfileCall EXCEPT !.op = "deleteProfile",
                                     !.stage = "auth"]
    /\ UNCHANGED << profiles, nextProfileId >>
    /\ ProfileUnchanged

\* The first await of every operation: supabase.auth.getUser().
ProfileGetUserDone ==
    /\ pcall.stage = "auth"
    /\ \E reachable \in BOOLEAN :
        LET user == GetUser(session, reachable) IN
        IF NotAuthenticated(user)
        THEN pcall' = [pcall EXCEPT !.stage = "done", !.error = AuthError]
        ELSE pcall' = [pcall EXCEPT !.stage = "query", !.user = user]
    /\ UNCHANGED << profiles, nextProfileId >>
    /\ ProfileUnchanged

\* The query of the call settles with res.
ProfileSettle(res, returned) ==
    /\ profiles' = res.table
    /\ pcall' = [pcall EXCEPT !.stage = "done", !.error = res.error,
                              !.data = res.data, !.returned = returned]
    /\ ProfileUnchanged

ProfileQuerying(op) == pcall.stage = "query" /\ pcall.op = op

GetProfileQuery ==
    /\ ProfileQuerying("getProfile")
    /\ \E reached \in BOOLEAN :
        IF reached
        THEN LET res == GetProfile(profiles, pcall.user, session)
             IN  ProfileSettle(res, IF res.error = NoError THEN res.returned
                                    ELSE "none")
        ELSE ProfileSettle(NetworkFailure(profiles), "none")
    /\ UNCHANGED nextProfileId

UpsertProfileQuery ==
    /\ ProfileQuerying("upsertProfile")
    /\ \E reached \in BOOLEAN :
        LET res == IF reached
                   THEN UpsertProfile(profiles, pcall.arg, pcall.user,
                                      session, nextProfileId)
                   ELSE NetworkFailure(profiles)
        IN  /\ nextProfileId' =
                  IF Cardinality(res.table) > Cardinality(profiles)
                  THEN nextProfileId + 1 ELSE nextProfileId
            /\ ProfileSettle(res, IF res.error = NoError THEN "profile"
                                   ELSE "none")

DeleteProfileQuery ==
    /\ ProfileQuerying("deleteProfile")
    /\ \E reached \in BOOLEAN :
        LET res == IF reached
                   THEN DeleteProfile(profiles, pcall.user, session)
                   ELSE NetworkFailure(profiles)
        IN  ProfileSettle(res, "none")
    /\ UNCHANGED nextProfileId

\* ------------------------------------------------------------------ statistics
\* What the dashboard and the history view derive from the readings they
\* hold: averages, categories and trends.
NoDerived == [op |-> "none"]

\* Mutant: the quotient is truncated.
MathTrunc(num, den) == num \div den

\* Math.round(num / den) for den > 0: the nearest integer, a half goes up.
MathRound(num, den) == (2 * num + den) \div (2 * den)

\* readings.reduce((acc, reading) => acc + reading[f], 0)
RECURSIVE SumOf(_, _)
SumOf(rs, f) == IF rs = << >> THEN 0 ELSE Head(rs)[f] + SumOf(Tail(rs), f)

\* Dashboard getAverages
GetAverages(rs) ==
    IF Len(rs) = 0 THEN [systolic |-> 0, diastolic |-> 0, pulse |-> 0]
    ELSE [systolic |-> MathRound(SumOf(rs, "systolic"), Len(rs)),
          diastolic |-> MathRound(SumOf(rs, "diastolic"), Len(rs)),
          pulse |-> MathRound(SumOf(rs, "pulse"), Len(rs))]

Category(category, color) == [category |-> category, color |-> color]

\* Mutant: the dashboard tests High Stage 2 before High Stage 1.
DashboardCategoryStage2First(systolic, diastolic) ==
    IF systolic < 120 /\ diastolic < 80 THEN Category("Normal", "#4CAF50")
    ELSE IF systolic < 130 /\ diastolic < 80
        THEN Category("Elevated", "#FF9800")
    ELSE IF \/ systolic >= 140 /\ systolic < 180
            \/ diastolic >= 90 /\ diastolic < 120
        THEN Category("High Stage 2", "#D32F2F")
    ELSE IF \/ systolic >= 130 /\ systolic < 140
            \/ diastolic >= 80 /\ diastolic < 90
        THEN Category("High Stage 1", "#F44336")
    ELSE IF systolic >= 180 \/ diastolic >= 120
        THEN Category("Hypertensive Crisis", "#B71C1C")
    ELSE Category("Normal", "#4CAF50")

\* Dashboard getBloodPressureCategory (latest revision)
DashboardCategory(systolic, diastolic) ==
    IF systolic < 120 /\ diastolic < 80 THEN Category("Normal", "#4CAF50")
    ELSE IF systolic < 130 /\ diastolic < 80
        THEN Category("Elevated", "#FF9800")
    ELSE IF \/ systolic >= 130 /\ systolic < 140
            \/ diastolic >= 80 /\ diastolic < 90
        THEN Category("High Stage 1", "#F44336")
    ELSE IF \/ systolic >= 140 /\ systolic < 180
            \/ diastolic >= 90 /\ diastolic < 120
        THEN Category("High Stage 2", "#D32F2F")
    ELSE IF systolic >= 180 \/ diastolic >= 120
        THEN Category("Hypertensive Crisis", "#B71C1C")
    ELSE Category("Normal", "#4CAF50")

\* Mutant: the history view has no Elevated band.
ListCategoryNoElevated(systolic, diastolic) ==
    IF systolic < 120 /\ diastolic < 80 THEN Category("Normal", "#4CAF50")
    ELSE IF systolic < 140 \/ diastolic < 90
        THEN Category("High Stage 1", "#F44336")
    ELSE IF systolic < 180 \/ diastolic < 120
        THEN Category("High Stage 2", "#D32F2F")
    ELSE Category("Crisis", "#B71C1C")

\* ReadingsList getBloodPressureCategory (latest revision)
ListCategory(systolic, diastolic) ==
    IF systolic < 120 /\ diastolic < 80 THEN Category("Normal", "#4CAF50")
    ELSE IF systolic < 130 /\ diastolic < 80
        THEN Category("Elevated", "#FF9800")
    ELSE IF systolic < 140 \/ diastolic < 90
        THEN Category("High Stage 1", "#F44336")
    ELSE IF systolic < 180 \/ diastolic < 120
        THEN Category("High Stage 2", "#D32F2F")
    ELSE Category("Crisis", "#B71C1C")

\* Mutant: a difference of 5 already counts as a change.
GetIconInclusive(diff) ==
    IF diff >= 5 THEN "up" ELSE IF diff <= -5 THEN "down" ELSE "flat"

\* getIcon: the arrows up (U+2B06), down (U+2B07) and right (U+27A1).
GetIcon(diff) ==
    IF diff > 5 THEN "up" ELSE IF diff < -5 THEN "down" ELSE "flat"

\* formatDiff: `+${diff}` for a positive difference, diff.toString() else.
FormatDiff(diff) ==
    IF diff > 0 THEN << "+" >> \o NumberToString(diff)
    ELSE NumberToString(diff)

TrendOf(diff) == [diff |-> diff, icon |-> GetIcon(diff),
                  text |-> FormatDiff(diff)]

NoTrend == [isNull |-> TRUE]

\* getTrendComparison(currentReading, index) over the view's readings, for
\* the item at index (counted from 0): the next item of the list is the
\* previous reading.
GetTrendComparison(rs, index) ==
    IF index >= Len(rs) - 1 THEN NoTrend
    ELSE LET currentReading == rs[index + 1]
             previousReading == rs[index + 2]
         IN  [isNull |-> FALSE,
              systolic |-> TrendOf(currentReading.systolic
                                      - previousReading.systolic),
              diastolic |-> TrendOf(currentReading.diastolic
                                       - previousReading.diastolic)]

\* Readings a view may hold.
ShownReadings ==
    { [systolic |-> 118, diastolic |-> 76, pulse |-> 69],
      [systolic |-> 124, diastolic |-> 81, pulse |-> 70],
      [systolic |-> 119, diastolic |-> 87, pulse |-> 70],
      [systolic |-> 185, diastolic |-> 125, pulse |-> 90] }

\* The lists of up to MaxShown such readings, newest first as getAllReadings
\* hands them back.
ShownLists ==
    UNION { { [i \in 1..n |-> SetField(rs[i], "timestamp", n + 1 - i)] :
                rs \in [1..n -> ShownReadings] } : n \in 0..MaxShown }

\* One reading for every pair of values the table accepts.
ShownPairs ==
    { << [systolic |-> sys, diastolic |-> dia, pulse |-> 70,
          timestamp |-> 1] >> :
        sys \in 1..(SystolicLimit - 1), dia \in 1..(DiastolicLimit - 1) }

StatsUnchanged ==
    UNCHANGED << session, readings, nextId, pipelineVars, configVars,
                 repoVars, list, profiles, nextProfileId, pcall, shown,
                 lateVars >>

\* The dashboard renders: const averages = getAverages()
ShowAverages ==
    /\ derived' = [op |-> "averages", index |-> 0,
                   value |-> GetAverages(shown)]
    /\ StatsUnchanged

\* The history view renders the item at index: getTrendComparison(item,
\* index)
ShowTrend ==
    /\ \E index \in 0..(Len(shown) - 1) :
          derived' = [op |-> "trend", index |-> index,
                      value |-> GetTrendComparison(shown, index)]
    /\ StatsUnchanged

\* The category of the dashboard's averages and the category of the history
\* view's item at index.
ShowCategory ==
    /\ \E index \in 0..(Len(shown) - 1) :
          LET averages == GetAverages(shown)
              item == shown[index + 1]
          IN  derived' =
                [op |-> "category", index |-> index,
                 value |-> [averages |-> averages,
                            dashboard |-> DashboardCategory(
                                averages.systolic, averages.diastolic),
                            history |-> ListCategory(item.systolic,
                                                     item.diastolic)]]
    /\ StatsUnchanged

\* Both categorizers applied to the shown pair, to the pair with systolic
\* one higher and to the pair with diastolic one higher.
ShowRaised ==
    /\ LET sys == shown[1].systolic
           dia == shown[1].diastolic
       IN  derived' =
             [op |-> "raised", index |-> 0,
              value |-> [dashboard |-> [base |-> DashboardCategory(sys, dia),
                                        sysUp |-> DashboardCategory(sys + 1,
                                                                    dia),
                                        diaUp |-> DashboardCategory(sys,
                                                                    dia + 1)],
                         history |-> [base |-> ListCategory(sys, dia),
                                      sysUp |-> ListCategory(sys + 1, dia),
                                      diaUp |-> ListCategory(sys,
                                                             dia + 1)]]]
    /\ StatsUnchanged

\* --------------------------------------------------------------- AuthProvider
NoEvent == [event |-> "none", user |-> NoUser]

\* AuthProvider when it has mounted: useState(null), useState(true), and
\* checkCurrentUser called by the effect. check is the position of that
\* call, checkUser what getCurrentUser answers; events are the auth events
\* the client has emitted and the listener has not yet handled; op is the
\* signIn or signOut in flight. started, thrown (the error thrown to the
\* caller of the last signIn or signOut) and lastEvent (the last SIGNED_IN or
\* SIGNED_OUT the listener handled) are history.
NoAuth == [user |-> NoUser, loading |-> TRUE, check |-> "pending",
           checkUser |-> NoUser, events |-> << >>, op |-> "none",
           started |-> 0, thrown |-> "none", lastEvent |-> NoEvent]

\* authService.getCurrentUser: the user of supabase.auth.getUser(), null on
\* any error.
GetCurrentUser(sess, reachable) == GetUser(sess, reachable)

\* authService.signInWithGoogle: the { data, error } it returns, from the
\* answer of signInWithOAuth, the result of the browser session, whether the
\* redirect URL holds an access token, and the answer of setSession.
\* (signInWithOAuth without error always holds a url.)
SignInWithGoogle(oauthOk, resultType, hasToken, sessionOk, u) ==
    IF ~oauthOk THEN [user |-> NoUser, error |-> "OAuth error"]
    ELSE IF resultType = "success" /\ hasToken
        THEN IF sessionOk THEN [user |-> u, error |-> NoError]
             ELSE [user |-> NoUser, error |-> "Session error"]
    ELSE IF resultType = "cancel"
        THEN [user |-> NoUser, error |-> "User cancelled authentication"]
    ELSE [user |-> NoUser, error |-> "Authentication failed"]

\* What the browser session may end with.
ResultTypes == {"success", "cancel", "dismiss"}

AuthUnchanged ==
    UNCHANGED << readings, nextId, pipelineVars, configVars, repoVars, list,
                 profiles, nextProfileId, pcall, shown, derived, dash >>

\* getCurrentUser's getUser is answered for the session of that moment.
CheckAnswered ==
    /\ auth.check = "pending"
    /\ \E reachable \in BOOLEAN :
          auth' = [auth EXCEPT !.check = "answered",
                               !.checkUser = GetCurrentUser(session,
                                                            reachable)]
    /\ UNCHANGED session
    /\ AuthUnchanged

\* checkCurrentUser after its await: setUser(currentUser), and
\* setLoading(false) in the finally block.
CheckSettled ==
    /\ auth.check = "answered"
    /\ auth' = [auth EXCEPT !.check = "done", !.user = auth.checkUser,
                            !.loading = FALSE]
    /\ UNCHANGED session
    /\ AuthUnchanged

\* signIn up to its await: setLoading(true), signInWithGoogle is called.
AuthSignIn ==
    /\ auth.op = "none"
    /\ auth.started < MaxAuthCalls
    /\ auth' = [auth EXCEPT !.op = "signIn", !.loading = TRUE,
                            !.started = @ + 1, !.thrown = "none"]
    /\ UNCHANGED session
    /\ AuthUnchanged

\* signIn after its await: with an error, setLoading(false) and the error
\* is thrown; without, nothing: setSession has stored the session and
\* emitted SIGNED_IN.
SignInSettled ==
    /\ auth.op = "signIn"
    /\ \E oauthOk \in BOOLEAN : \E resultType \in ResultTypes :
       \E hasToken \in BOOLEAN : \E sessionOk \in BOOLEAN : \E u \in Users :
          LET res == SignInWithGoogle(oauthOk, resultType, hasToken,
                                      sessionOk, u)
          IN  IF res.error # NoError
              THEN /\ auth' = [auth EXCEPT !.op = "none", !.loading = FALSE,
                                           !.thrown = res.error]
                   /\ UNCHANGED session
              ELSE /\ auth' = [auth EXCEPT
                                 !.op = "none",
                                 !.events = Append(@, [event |-> "SIGNED_IN",
                                                       user |-> res.user])]
                   /\ session' = res.user
    /\ AuthUnchanged

\* signOut up to its await: setLoading(true), authService.signOut is called.
AuthSignOut ==
    /\ auth.op = "none"
    /\ auth.started < MaxAuthCalls
    /\ auth' = [auth EXCEPT !.op = "signOut", !.loading = TRUE,
                            !.started = @ + 1, !.thrown = "none"]
    /\ UNCHANGED session
    /\ AuthUnchanged

\* signOut after its await: with an error, setLoading(false) and the error
\* is thrown; without, the client has removed the session and emitted
\* SIGNED_OUT.
SignOutSettled ==
    /\ auth.op = "signOut"
    /\ \E ok \in BOOLEAN :
          IF ok
          THEN /\ auth' = [auth EXCEPT
                             !.op = "none",
                             !.events = Append(@, [event |-> "SIGNED_OUT",
                                                   user |-> NoUser])]
               /\ session' = NoUser
          ELSE /\ auth' = [auth EXCEPT !.op = "none", !.loading = FALSE,
                                       !.thrown = "Failed to sign out"]
               /\ UNCHANGED session
    /\ AuthUnchanged

\* The client emits an event of its own: the token of the session was
\* refreshed, or the session ended (it expired or was revoked).
ClientEvent ==
    /\ session \in Users
    /\ Len(auth.events) < MaxEvents
    /\ \E ended \in BOOLEAN :
          IF ended
          THEN /\ auth' = [auth EXCEPT
                             !.events = Append(@, [event |-> "SIGNED_OUT",
                                                   user |-> NoUser])]
               /\ session' = NoUser
          ELSE /\ auth' = [auth EXCEPT
                             !.events = Append(@,
                                               [event |-> "TOKEN_REFRESHED",
                                                user |-> session])]
               /\ UNCHANGED session
    /\ AuthUnchanged

\* Mutant: the listener does not call setLoading(false).
HandleEventKeepsLoading ==
    /\ auth.events # << >>
    /\ LET e == Head(auth.events)
       IN  auth' = [auth EXCEPT
                      !.events = Tail(@),
                      !.user = IF e.event = "SIGNED_IN" THEN e.user
                               ELSE IF e.event = "SIGNED_OUT" THEN NoUser
                               ELSE @,
                      !.lastEvent = IF e.event \in {"SIGNED_IN", "SIGNED_OUT"}
                                    THEN e ELSE @]
    /\ UNCHANGED session
    /\ AuthUnchanged

\* The onAuthStateChange callback for the oldest event not yet handled:
\* setUser(authUser) for SIGNED_IN with a session user, setUser(null) for
\* SIGNED_OUT, and setLoading(false) for every event.
HandleEvent ==
    /\ auth.events # << >>
    /\ LET e == Head(auth.events)
       IN  auth' = [auth EXCEPT
                      !.events = Tail(@),
                      !.user = IF e.event = "SIGNED_IN" THEN e.user
                               ELSE IF e.event = "SIGNED_OUT" THEN NoUser
                               ELSE @,
                      !.loading = FALSE,
                      !.lastEvent = IF e.event \in {"SIGNED_IN", "SIGNED_OUT"}
                                    THEN e ELSE @]
    /\ UNCHANGED session
    /\ AuthUnchanged

\* isAuthenticated: !!user
IsAuthenticated == auth.user # NoUser

\* ------------------------------------------------------------------ dashboard
\* dateRangeOptions: the ranges of the selector and their days.
DateRangeOptions ==
    { [value |-> "7d", days |-> 7], [value |-> "15d", days |-> 15],
      [value |-> "30d", days |-> 30], [value |-> "3m", days |-> 90],
      [value |-> "6m", days |-> 180], [value |-> "1y", days |-> 365] }

DateRanges == { option.value : option \in DateRangeOptions }

\* const daysBack = selectedOption?.days || 30
DaysBack(range) ==
    (CHOOSE option \in DateRangeOptions : option.value = range).days

\* The Dashboard when it has rendered for the first time: its useState
\* values, and the effect of that render still to run. effect is the
\* selectedRange of the last committed render while its effect has not run;
\* loads are the loadReadings calls in flight; started counts them and
\* latest is how the one started last ended (both are history).
NoDash == [selectedRange |-> "30d", loading |-> TRUE, readings |-> << >>,
           effect |-> "30d", loads |-> {}, started |-> 0,
           latest |-> "none"]

\* loadReadings of the render whose selectedRange is range, up to its await:
\* setLoading(true), startDate = now - daysBack, getReadingsByDateRange is
\* called.
StartLoad(d, range, now) ==
    [d EXCEPT !.loading = TRUE,
              !.effect = "none",
              !.started = @ + 1,
              !.latest = "pending",
              !.loads = @ \cup {[id |-> d.started + 1,
                                 startDate |-> now - DaysBack(range)]}]

DashUnchanged ==
    UNCHANGED << session, readings, nextId, pipelineVars, configVars,
                 repoVars, list, profiles, nextProfileId, pcall, shown,
                 derived, auth >>

\* useEffect(() => { loadReadings(); }, [selectedRange]): the effect of the
\* last committed render runs, after the render.
RunEffect ==
    /\ dash.effect # "none"
    /\ dash' = StartLoad(dash, dash.effect, clock)
    /\ DashUnchanged

\* handleRangeSelection(newRange) by a button of the selector, which is
\* rendered when loading is false. An effect still pending from the
\* previous render runs before the new render; the new render's effect is
\* then pending.
HandleRangeSelection ==
    /\ ~dash.loading
    /\ dash.started + (IF dash.effect = "none" THEN 0 ELSE 1) < MaxLoads
    /\ \E newRange \in DateRanges :
          /\ newRange # dash.selectedRange
          /\ LET flushed == IF dash.effect = "none" THEN dash
                            ELSE StartLoad(dash, dash.effect, clock)
             IN  dash' = [flushed EXCEPT !.selectedRange = newRange,
                                         !.effect = newRange]
    /\ DashUnchanged

\* loadReadings after its await, for any of the loads in flight:
\* setReadings(data.sort(...)) or the catch block, then setLoading(false).
LoadDone ==
    /\ \E load \in dash.loads : \E reachable \in BOOLEAN :
       \E reached \in BOOLEAN :
          LET user == GetUser(session, reachable)
              res == IF NotAuthenticated(user)
                         THEN DbResult(AuthError, readings, {})
                     ELSE IF reached
                         THEN GetReadingsByDateRange(readings, load.startDate,
                                                     clock, user, session)
                     ELSE NetworkFailure(readings)
          IN  \E rows \in Ordered(res.data, TRUE) :
                dash' = [dash EXCEPT
                           !.loads = @ \ {load},
                           !.loading = FALSE,
                           !.readings = IF res.error = NoError THEN rows
                                        ELSE @,
                           !.latest = IF load.id # dash.started THEN @
                                      ELSE IF res.error = NoError THEN "ok"
                                      ELSE "failed"]
    /\ DashUnchanged

\* ------------------------------------------------------------- specifications
\* The state after construction, but for the session and the shown readings.
\* The state of the client when the App starts, but for the session, the
\* table of readings and the readings a view holds.
InitRest ==
    /\ bucket = {}
    /\ clock = 0
    /\ openaiKey \in BOOLEAN
    /\ anthropicKey \in BOOLEAN
    /\ pc = "Idle"
    /\ isProcessing = FALSE
    /\ currentTab = "camera"
    /\ fileName = ""
    /\ imageUrl = Null
    /\ analysisResult = EmptyObj
    /\ analysis = NoAnalysis
    /\ saveStage = "idle"
    /\ saveUser = NoUser
    /\ calls = NoCalls
    /\ runCreated = {}
    /\ failedAt = "none"
    /\ route = "none"
    /\ runs = 0
    /\ call = NoCall
    /\ list = NoList
    /\ profiles = {}
    /\ nextProfileId = 1
    /\ pcall = NoProfileCall
    /\ derived = NoDerived
    /\ dash = NoDash
    /\ auth = NoAuth

InitBase ==
    /\ readings = {}
    /\ nextId = 1
    /\ InitRest

\* Nobody is signed in when the App starts.
Init ==
    /\ session = NoUser
    /\ shown = << >>
    /\ InitBase

\* The capture pipeline on one client.
Next ==
    \/ StartCapture
    \/ UploadDone
    \/ AnalyzeDone
    \/ UserCancel
    \/ UserSaveAnyway
    \/ SaveGetUser
    \/ SaveInsert
    \/ SwitchTab
    \/ SignIn
    \/ SignOut

Spec == Init /\ [][Next]_vars

\* The pipeline when every remote call settles: the promises of uploadImage,
\* analyzeBloodPressureImage, getUser and the insert resolve or reject.
Settling ==
    /\ WF_vars(UploadDone)
    /\ WF_vars(AnalyzeDone)
    /\ WF_vars(SaveGetUser)
    /\ WF_vars(SaveInsert)

\* The pipeline of a signed-in user, with or without the OpenAI key.
InitLive ==
    /\ session = "A"
    /\ shown = << >>
    /\ InitBase
    /\ ~anthropicKey

NextLive ==
    \/ StartCapture
    \/ UploadDone
    \/ AnalyzeDone
    \/ UserCancel
    \/ UserSaveAnyway
    \/ SaveGetUser
    \/ SaveInsert
    \/ SwitchTab

SpecLive == InitLive /\ [][NextLive]_vars /\ Settling

\* The reading repository used by the users of one client; the analysis
\* configuration plays no part in it.
InitRepo == Init /\ openaiKey /\ ~anthropicKey

NextRepo ==
    \/ StartInsert
    \/ StartGetAll
    \/ StartGetById
    \/ StartDelete
    \/ StartUpdate
    \/ StartDateRange
    \/ GetUserDone
    \/ InsertQuery
    \/ GetAllQuery
    \/ GetByIdQuery
    \/ DeleteQuery
    \/ UpdateQuery
    \/ DateRangeQuery
    \/ SignIn
    \/ SignOut

SpecRepo == InitRepo /\ [][NextRepo]_vars

\* Creating and updating readings, with every kind of patch.
NextPatch ==
    \/ StartInsert
    \/ StartUpdateAny
    \/ GetUserDone
    \/ InsertQuery
    \/ UpdateQuery
    \/ SignIn
    \/ SignOut

SpecPatch == InitRepo /\ [][NextPatch]_vars

\* The history view of one client, with readings saved by its capture tab.
NextList ==
    \/ StartSave
    \/ LoadReadings
    \/ LoadSettled
    \/ OpenEditModal
    \/ TypeField
    \/ CloseEditModal
    \/ SaveEditedReading
    \/ UpdateSettled
    \/ ReloadSettled
    \/ GetUserDone
    \/ InsertQuery
    \/ GetAllQuery
    \/ UpdateQuery
    \/ SignOut

\* The profile service used by the users of one client.
NextProfile ==
    \/ StartGetProfile
    \/ StartUpsertProfile
    \/ StartDeleteProfile
    \/ ProfileGetUserDone
    \/ GetProfileQuery
    \/ UpsertProfileQuery
    \/ DeleteProfileQuery
    \/ SignIn
    \/ SignOut

SpecProfile == InitRepo /\ [][NextProfile]_vars

\* The statistics of the views of a signed-in user, for lists of readings.
InitStats ==
    /\ session = "A"
    /\ shown \in ShownLists
    /\ InitBase
    /\ openaiKey /\ ~anthropicKey

NextStats ==
    \/ ShowAverages
    \/ ShowTrend

SpecStats == InitStats /\ [][NextStats]_vars

\* The categories of every pair of values.
InitCategory ==
    /\ session = "A"
    /\ shown \in ShownPairs
    /\ InitBase
    /\ openaiKey /\ ~anthropicKey

NextCategory == ShowCategory \/ ShowRaised

SpecCategory == InitCategory /\ [][NextCategory]_vars

\* The history view is rendered for a signed-in user.
InitList ==
    /\ session = "A"
    /\ shown = << >>
    /\ InitBase
    /\ openaiKey /\ ~anthropicKey

SpecList == InitList /\ [][NextList]_vars

\* The history view's delete and edit of a reading, with another device of
\* the user deleting readings on the server.
NextDelete ==
    \/ StartSave
    \/ LoadReadings
    \/ LoadSettled
    \/ ShowDeleteConfirmation
    \/ HideDeleteConfirmation
    \/ ConfirmDelete
    \/ DeleteSettled
    \/ DeleteReloadSettled
    \/ OpenEditModal
    \/ CloseEditModal
    \/ SaveEditedReading
    \/ UpdateSettled
    \/ ReloadSettled
    \/ RemoteDelete
    \/ GetUserDone
    \/ InsertQuery
    \/ GetAllQuery
    \/ DeleteQuery
    \/ UpdateQuery
    \/ SignOut

SpecDelete == InitList /\ [][NextDelete]_vars

\* AuthProvider from its mount on, with or without a stored session.
InitAuth ==
    /\ session \in Users \cup {NoUser}
    /\ shown = << >>
    /\ InitBase
    /\ openaiKey /\ ~anthropicKey

NextAuth ==
    \/ CheckAnswered
    \/ CheckSettled
    \/ AuthSignIn
    \/ SignInSettled
    \/ AuthSignOut
    \/ SignOutSettled
    \/ ClientEvent
    \/ HandleEvent

SpecAuth == InitAuth /\ [][NextAuth]_vars

\* Every call of the client settles and every emitted event reaches the
\* listener.
AuthSettling ==
    /\ WF_vars(CheckAnswered)
    /\ WF_vars(CheckSettled)
    /\ WF_vars(SignInSettled)
    /\ WF_vars(SignOutSettled)
    /\ WF_vars(HandleEvent)

SpecAuthLive == InitAuth /\ [][NextAuth]_vars /\ AuthSettling

\* The readings in the table when the dashboard is opened: three of user A,
\* 3, 20 and 200 days old, and one of user B.
DashTable ==
    LET Row(id, user, age) ==
            ToRow([systolic |-> 118, diastolic |-> 76, pulse |-> 69,
                   timestamp |-> 0 - age, user_id |-> user], id)
    IN  { Row(1, "A", 200), Row(2, "A", 20), Row(3, "A", 3),
          Row(4, "B", 1) }

InitDashboard ==
    /\ session = "A"
    /\ shown = << >>
    /\ readings = DashTable
    /\ nextId = 5
    /\ InitRest
    /\ openaiKey /\ ~anthropicKey

\* The dashboard of a signed-in user: range selections and loads.
NextDashboard ==
    \/ RunEffect
    \/ HandleRangeSelection
    \/ LoadDone

SpecDashboard == InitDashboard /\ [][NextDashboard]_vars


\* ------------------------------------------------------- pipeline properties
\* This run's upload and analysis both succeeded.
Analysed == analysis.provider # "none" /\ analysis.error = "none"

NumericConfidence(result) ==
    Has(result, "confidence") /\ result.confidence.kind = "number"

ViaConfirmation == {"awaiting", "cancel", "saveAnyway"}

\* C1: in a run whose upload and analysis succeeded, a confidence >= 0.7 goes
\* straight to saving and never shows the confirmation; a confidence < 0.7
\* reaches AwaitingConfirmation and nothing is saved before the user decides,
\* whatever the extracted values are.
C1_ConfidenceGate ==
    (Analysed /\ NumericConfidence(analysisResult)) =>
        IF analysisResult.confidence.val >= ConfidenceThreshold
        THEN /\ route = "auto"
             /\ pc \in {"AutoSave", "Saved", "Failed"}
        ELSE /\ route \in ViaConfirmation
             /\ pc \in {"AwaitingConfirmation", "Cancelled", "ConfirmedSave",
                        "Saved", "Failed"}
             /\ route = "awaiting" =>
                    /\ pc = "AwaitingConfirmation"
                    /\ calls.insert = 0
                    /\ runCreated = {}

\* The boundary below the threshold, with crisis-level values, waits for the
\* user.
C1_Witness ==
    /\ Analysed
    /\ NumericConfidence(analysisResult)
    /\ analysisResult.confidence.val = 69
    /\ analysisResult.systolic = 185
    /\ pc = "AwaitingConfirmation"

\* The confidence is missing, not a number, or outside [0,1].
UntrustedConfidence(result) ==
    \/ ~Has(result, "confidence")
    \/ result.confidence.kind # "number"
    \/ result.confidence.val < 0
    \/ result.confidence.val > 100

\* C2: a missing or out-of-range confidence is the lowest trust tier: the
\* run reaches AwaitingConfirmation and never auto-saves.
C2_UntrustedConfidenceConfirms ==
    (Analysed /\ UntrustedConfidence(analysisResult)) =>
        route \in ViaConfirmation

\* C3: Cancelled is entered only from AwaitingConfirmation by the Cancel
\* button; the run has created no reading, the readings are what they were,
\* and the uploaded image is still stored.
C3_CancelLeavesNoReading ==
    [][ (pc' = "Cancelled" /\ pc # "Cancelled") =>
            /\ pc = "AwaitingConfirmation"
            /\ route' = "cancel"
            /\ readings' = readings
            /\ runCreated' = {}
            /\ calls'.insert = 0
            /\ imageUrl' = PublicUrl(fileName')
            /\ ObjectKey(fileName') \in bucket' ]_vars

\* A low-confidence run was cancelled while an earlier run's reading exists.
C3_Witness ==
    /\ pc = "Cancelled"
    /\ readings # {}
    /\ ObjectKey(fileName) \in bucket

\* C4: a run that ends in Saved adds exactly one reading, with the analysis
\* result's systolic, diastolic, pulse, timestamp and notes and the non-null
\* URL of this run's upload, and the UI switches to the readings tab.
C4_SavedAddsTheReading ==
    [][ (pc' = "Saved" /\ pc # "Saved") =>
            /\ currentTab' = "readings"
            /\ imageUrl # Null
            /\ imageUrl = PublicUrl(fileName)
            /\ \E row \in readings' :
                /\ row \notin readings
                /\ readings' = readings \cup {row}
                /\ runCreated' = {row.id}
                /\ row.systolic = analysisResult.systolic
                /\ row.diastolic = analysisResult.diastolic
                /\ row.pulse = analysisResult.pulse
                /\ row.timestamp = analysisResult.timestamp
                /\ row.notes = analysisResult.notes
                /\ row.image_url = imageUrl ]_vars

\* A confirmed low-confidence save has stored its reading.
C4_Witness ==
    /\ pc = "Saved"
    /\ route = "saveAnyway"
    /\ currentTab = "readings"
    /\ \E row \in readings : row.id \in runCreated /\ row.image_url = imageUrl

\* C5: with either provider, a successful analysis returns the analysis
\* completion time as timestamp, never the model's value.
C5_TimestampIsCompletionTime ==
    Analysed =>
        /\ Has(analysisResult, "timestamp")
        /\ analysisResult.timestamp = analysis.doneAt

\* C6: analysis is invoked only after the upload succeeded, never while the
\* upload is pending; a failed upload ends the run in Failed with analysis
\* never invoked and no reading created.
C6_UploadThenAnalysis ==
    /\ pc = "Uploading" => calls.analyze = 0
    /\ calls.analyze > 0 =>
          /\ imageUrl # Null
          /\ ObjectKey(fileName) \in bucket
    /\ failedAt = "upload" =>
          /\ pc = "Failed"
          /\ calls.analyze = 0
          /\ calls.insert = 0
          /\ runCreated = {}
          /\ route = "none"

\* The second capture's upload failed after the first one was analysed.
C6_Witness ==
    /\ failedAt = "upload"
    /\ pc = "Failed"
    /\ runs = 2

\* C7: when analysis or the repository create fails after a successful
\* upload, the run ends in Failed, creates no reading, and the uploaded
\* object stays: no object is ever removed from the bucket.
C7_FailureKeepsUpload ==
    [][ /\ bucket \subseteq bucket'
        /\ failedAt' \in {"analysis", "save"} =>
              /\ pc' = "Failed"
              /\ runCreated' = {}
              /\ readings' = readings
              /\ imageUrl' = PublicUrl(fileName')
              /\ ObjectKey(fileName') \in bucket' ]_vars

\* The insert of a confirmed save was rejected; the image is still stored.
C7_Witness ==
    /\ failedAt = "save"
    /\ pc = "Failed"
    /\ route = "saveAnyway"
    /\ saveUser \in Users
    /\ ObjectKey(fileName) \in bucket

\* The analysis of this run has settled, and the image could be encoded.
ProviderChosen == analysis.doneAt # 0 /\ analysis.error # "EncodeError"

FailureKinds == {"ProviderError", "ParseError", "ConfigurationError"}

\* C21: when analyze fails, the error its caller receives tells the kind of
\* failure: a provider error with the provider's message, a parse error, or
\* the configuration error for missing credentials.
C21_ErrorTellsFailureKind ==
    analysis.error \in FailureKinds =>
        analysis.thrown = ThrownInside(analysis.provider, analysis.error)

\* C22: no step is retried. In one run uploadImage, analyzeBloodPressureImage
\* and insertReading are each invoked at most once; a run that has failed
\* invokes nothing more and stays failed until a new capture starts, and the
\* new capture starts from the upload again, its analysis being invoked only
\* when that upload has succeeded.
C22_NoAutomaticRetry ==
    [][ /\ calls'.upload <= 1
        /\ calls'.analyze <= 1
        /\ calls'.insert <= 1
        /\ pc = "Failed" =>
              \/ pc' = "Failed" /\ calls' = calls /\ runs' = runs
              \/ /\ pc' = "Uploading"
                 /\ runs' = runs + 1
                 /\ calls' = [upload |-> 1, analyze |-> 0, insert |-> 0]
        /\ pc' = "Uploading" => (pc = "Uploading" \/ runs' = runs + 1)
        /\ calls'.analyze > calls.analyze =>
              /\ pc = "Uploading"
              /\ calls.upload = 1
              /\ ObjectKey(fileName) \in bucket'
      ]_vars

\* The second capture has failed at its analysis, with one upload and one
\* analysis of its own and no insert.
C22_Witness ==
    /\ runs = 2
    /\ pc = "Failed"
    /\ failedAt = "analysis"
    /\ calls = [upload |-> 1, analyze |-> 1, insert |-> 0]

AuthStep == call.stage = "auth" /\ call'.stage # "auth"

\* The step in which the call's query settles.
QueryStep == call.stage = "query" /\ call'.stage = "done"

\* C8: every repository operation fails with the authentication error when
\* no authenticated user is available, and then issues no query, so the
\* stored readings are unchanged.
C8_NoUserNoQuery ==
    [][ (AuthStep /\ (session = NoUser \/ call'.user = NoUser)) =>
            /\ call'.stage = "done"
            /\ call'.error = AuthError
            /\ call'.queries = 0
            /\ call'.data = << >>
            /\ readings' = readings ]_vars

\* A delete issued with nobody signed in failed and left the stored row.
C8_Witness ==
    /\ call.op = "deleteReading"
    /\ call.stage = "done"
    /\ call.error = AuthError
    /\ session = NoUser
    /\ \E r \in readings : r.id = call.arg.id

\* The caller's readings with the id the call names.
Target == {r \in readings : r.id = call.arg.id /\ r.user_id = call.user}

\* C9: getReadingById, updateReading and deleteReading fail with a not-found
\* error for an id that does not exist or belongs to another user, and leave
\* the stored readings unchanged.
C9_MissingIdIsNotFound ==
    [][ ( /\ QueryStep
          /\ call.op \in {"getReadingById", "updateReading", "deleteReading"}
          /\ Target = {}
          /\ call'.error # "NetworkError" ) =>
            /\ call'.error = "NoRows"
            /\ readings' = readings ]_vars

\* C10: an operation issued by one user never returns, updates or deletes a
\* reading owned by another: the rows handed back are the caller's, and the
\* rows added, changed or removed are the caller's.
C10_OwnerIsolation ==
    [][ QueryStep =>
            /\ \A i \in 1..Len(call'.data) : call'.data[i].user_id = call.user
            /\ \A r \in (readings \ readings') \cup (readings' \ readings) :
                  r.user_id = call.user ]_vars

\* A list call returned the caller's row while another user's row is stored.
C10_Witness ==
    /\ call.op = "getAllReadings"
    /\ call.stage = "done"
    /\ call.data # << >>
    /\ \E r \in readings : r.user_id \in Users /\ r.user_id # call.user

\* The rows of a list handed back by a call.
Rows(seq) == {seq[i] : i \in 1..Len(seq)}

\* C11: the owner of a stored reading is the authenticated user of the
\* session that created it: a row that is created is owned by the user the
\* call resolved, who is the signed-in user, whatever user_id the payload
\* names, and no call changes the owner of a row that exists.
C11_OwnerFromSession ==
    [][ QueryStep =>
            /\ \A r \in readings' :
                  IF \E o \in readings : o.id = r.id
                  THEN \A o \in readings : o.id = r.id => r.user_id = o.user_id
                  ELSE r.user_id = call.user /\ r.user_id = session
            /\ (call.op = "insertReading" /\ call'.error = NoError) =>
                  \E r \in readings' \ readings :
                      /\ r.user_id = call.user
                      /\ call'.data = << r >> ]_vars

\* User A asked to hand an own reading over to user B: the update was
\* rejected and the reading is still A's.
C11_Witness ==
    /\ call.op = "updateReading"
    /\ call.stage = "done"
    /\ call.user = "A"
    /\ Has(call.arg.reading, "user_id")
    /\ call.arg.reading.user_id = "B"
    /\ call.error = "RlsViolation"
    /\ \E r \in readings : r.id = call.arg.id /\ r.user_id = "A"

\* The caller is still the signed-in user when the query of the call is
\* answered without error.
AnsweredToCaller == QueryStep /\ call'.error = NoError /\ session = call.user

\* The list is sorted by timestamp.
SortedByTimestamp(seq, ascending) ==
    \A i, j \in 1..Len(seq) : i < j =>
        IF ascending THEN seq[i].timestamp <= seq[j].timestamp
                     ELSE seq[i].timestamp >= seq[j].timestamp

\* C12: getReadingsByDateRange returns exactly the caller's readings with
\* start <= timestamp <= end, each once, in ascending timestamp order, and
\* getAllReadings returns all of the caller's readings, each once, in
\* descending timestamp order.
C12_ListsExactAndOrdered ==
    [][ AnsweredToCaller =>
          /\ call.op = "getReadingsByDateRange" =>
                LET want == {r \in readings :
                                /\ r.user_id = call.user
                                /\ call.arg.startDate <= r.timestamp
                                /\ r.timestamp <= call.arg.endDate}
                IN  /\ Rows(call'.data) = want
                    /\ Len(call'.data) = Cardinality(want)
                    /\ SortedByTimestamp(call'.data, TRUE)
          /\ call.op = "getAllReadings" =>
                LET want == {r \in readings : r.user_id = call.user}
                IN  /\ Rows(call'.data) = want
                    /\ Len(call'.data) = Cardinality(want)
                    /\ SortedByTimestamp(call'.data, FALSE) ]_vars

\* A range call returned two readings of the caller: the older one lies on
\* the start of the range and the newer one on its end.
C12_Witness ==
    /\ call.op = "getReadingsByDateRange"
    /\ call.stage = "done"
    /\ call.error = NoError
    /\ Len(call.data) = 2
    /\ call.arg.startDate < call.arg.endDate
    /\ call.data[1].timestamp = call.arg.startDate
    /\ call.data[2].timestamp = call.arg.endDate

\* C13: after a successful updateReading(id, patch) by the owner, a following
\* getAllReadings shows the reading with the patched values; its id and owner
\* are unchanged, its timestamp is unchanged unless the patch holds one, no
\* other reading is changed and the number of readings is the same.
C13_UpdateRoundTrip ==
    [][ (QueryStep /\ call.op = "updateReading" /\ call'.error = NoError) =>
          LET patch == call.arg.reading
              listed == GetAllReadings(readings', call.user, session).data
          IN  \E old \in readings : \E new \in listed :
                /\ old.id = call.arg.id
                /\ new.id = old.id
                /\ new.user_id = old.user_id
                /\ ~Has(patch, "timestamp") => new.timestamp = old.timestamp
                /\ \A f \in DOMAIN patch : new[f] = patch[f]
                /\ \A f \in Columns \ DOMAIN patch : new[f] = old[f]
                /\ readings' \ {new} = readings \ {old}
                /\ Cardinality(readings') = Cardinality(readings) ]_vars


\* ---------------------------------------------------- history view properties
\* The three values lie inside the bounds of the schema.
InBounds(r) ==
    /\ 0 < r.systolic /\ r.systolic < SystolicLimit
    /\ 0 < r.diastolic /\ r.diastolic < DiastolicLimit
    /\ 0 < r.pulse /\ r.pulse < PulseLimit

\* C14: whatever analysis results are saved and whatever texts the edit form
\* holds, every stored reading has 0 < systolic < 300, 0 < diastolic < 200
\* and 0 < pulse < 300; a create or update whose values are outside the
\* bounds (or are not numbers) fails and leaves the stored readings as they
\* were.
C14_StoredReadingsInBounds ==
    [][ /\ \A r \in readings' : InBounds(r)
        /\ ( /\ QueryStep
             /\ call.op \in {"insertReading", "updateReading"}
             /\ ~InBounds(call.arg.reading) ) =>
                /\ call'.error # NoError
                /\ readings' = readings ]_vars

\* The user typed 300 as systolic value of a stored reading: the update was
\* rejected by the table, the view showed the failure, and the reading
\* still has its value.
C14_Witness ==
    /\ list.alert = "Failed to update reading"
    /\ list.stage = "idle"
    /\ call.op = "updateReading"
    /\ call.error = "CheckViolation"
    /\ ParseInt(list.editForm.systolic) = 300
    /\ \E r \in readings : r.id = call.arg.id /\ r.systolic = 118


\* ------------------------------------------------------- profile properties
\* The step in which the profile call's query settles.
ProfileQueryStep == pcall.stage = "query" /\ pcall'.stage = "done"

\* The stored profiles of the user the call resolved.
ProfilesOfCaller == {q \in profiles : q.user_id = pcall.user}

\* C15: there is at most one profile per owner; an upsert by a user who has
\* a profile succeeds (when it reaches the table with values the table
\* accepts) and changes that profile, which keeps its id, instead of adding
\* one; getProfile changes nothing and returns null when the user has none.
C15_OneProfilePerOwner ==
    [][ /\ \A q1, q2 \in profiles' : q1.user_id = q2.user_id => q1 = q2
        /\ ( /\ ProfileQueryStep
             /\ pcall.op = "upsertProfile"
             /\ ProfilesOfCaller # {} ) =>
                /\ ( /\ session = pcall.user
                     /\ pcall'.error # "NetworkError"
                     /\ ProfileCheckConstraints(pcall.arg) ) =>
                        pcall'.error = NoError
                /\ pcall'.error = NoError =>
                      \E old \in ProfilesOfCaller : \E new \in profiles' :
                          /\ new.id = old.id
                          /\ new.user_id = old.user_id
                          /\ new.weight_kg = pcall.arg.weight_kg
                          /\ new.gender = pcall.arg.gender
                          /\ pcall'.data = {new}
                          /\ profiles' \ {new} = profiles \ {old}
                          /\ Cardinality(profiles') = Cardinality(profiles)
        /\ (ProfileQueryStep /\ pcall.op = "getProfile") =>
                /\ profiles' = profiles
                /\ (ProfilesOfCaller = {} /\ pcall'.error # "NetworkError")
                      => /\ pcall'.error = NoError
                         /\ pcall'.returned = "null" ]_vars

\* Both users have a profile, and the user who created the first one has
\* upserted again: that profile has the new values.
C15_Witness ==
    /\ pcall.op = "upsertProfile"
    /\ pcall.stage = "done"
    /\ pcall.error = NoError
    /\ Cardinality(profiles) = 2
    /\ nextProfileId = 3
    /\ \E q \in profiles :
          /\ q.id = 1
          /\ q.user_id = pcall.user
          /\ q.weight_kg = 80
          /\ pcall.data = {q}


\* ---------------------------------------------------- statistics properties
Abs(x) == IF x < 0 THEN 0 - x ELSE x

ValueFields == {"systolic", "diastolic", "pulse"}

\* a is an integer nearest to total / n.
NearestToMean(a, total, n) == 2 * Abs(a * n - total) <= n

\* C16: the averages of a list of readings are, for each of systolic,
\* diastolic and pulse, the arithmetic mean of the field rounded to the
\* nearest integer; all three are 0 for the empty list, and a single reading
\* gives its own values.
C16_AveragesAreRoundedMeans ==
    derived.op = "averages" =>
        /\ Len(shown) = 0 =>
              \A f \in ValueFields : derived.value[f] = 0
        /\ Len(shown) = 1 =>
              \A f \in ValueFields : derived.value[f] = shown[1][f]
        /\ Len(shown) > 0 =>
              \A f \in ValueFields :
                  NearestToMean(derived.value[f], SumOf(shown, f), Len(shown))

\* Three readings with systolic 118, 119 and 119: the mean 118.67 is shown
\* as 119.
C16_Witness ==
    /\ derived.op = "averages"
    /\ Len(shown) = 3
    /\ SumOf(shown, "systolic") = 356
    /\ derived.value.systolic = 119

\* The band a label names: the dashboard writes Crisis as Hypertensive
\* Crisis.
Band(label) == IF label = "Hypertensive Crisis" THEN "Crisis" ELSE label

CategoryExamples ==
    { <<119, 79, "Normal">>, <<125, 79, "Elevated">>,
      <<135, 85, "High Stage 1">>, <<145, 95, "High Stage 2">>,
      <<185, 125, "Crisis">> }

\* C17: (119,79) is Normal, (125,79) Elevated, (135,85) High Stage 1,
\* (145,95) High Stage 2 and (185,125) Crisis, for the dashboard's
\* categorizer and for the history view's.
C17_CategoryExamples ==
    derived.op = "category" =>
        \A e \in CategoryExamples :
            (shown[1].systolic = e[1] /\ shown[1].diastolic = e[2]) =>
                /\ derived.value.averages.systolic = e[1]
                /\ derived.value.averages.diastolic = e[2]
                /\ Band(derived.value.dashboard.category) = e[3]
                /\ Band(derived.value.history.category) = e[3]

\* (185,125) has been categorized by both views.
C17_Witness ==
    /\ derived.op = "category"
    /\ shown[1].systolic = 185
    /\ shown[1].diastolic = 125
    /\ derived.value.dashboard.category = "Hypertensive Crisis"
    /\ derived.value.history.category = "Crisis"

\* The five bands, from the lowest severity to the highest.
Bands == << "Normal", "Elevated", "High Stage 1", "High Stage 2", "Crisis" >>

\* The threshold condition of the k-th band in the dashboard.
DashboardTest(k, sys, dia) ==
    CASE k = 1 -> sys < 120 /\ dia < 80
      [] k = 2 -> sys < 130 /\ dia < 80
      [] k = 3 -> (sys >= 130 /\ sys < 140) \/ (dia >= 80 /\ dia < 90)
      [] k = 4 -> (sys >= 140 /\ sys < 180) \/ (dia >= 90 /\ dia < 120)
      [] k = 5 -> sys >= 180 \/ dia >= 120

\* The threshold condition of the k-th band in the history view, where
\* Crisis is what is left.
ListTest(k, sys, dia) ==
    CASE k = 1 -> sys < 120 /\ dia < 80
      [] k = 2 -> sys < 130 /\ dia < 80
      [] k = 3 -> sys < 140 \/ dia < 90
      [] k = 4 -> sys < 180 \/ dia < 120
      [] k = 5 -> TRUE

\* C18: for every pair of integers in the range of the schema each
\* categorizer returns one of the five bands, and it is the lowest band
\* whose threshold condition the pair satisfies.
C18_FirstMatchingBand ==
    derived.op = "category" =>
        LET sys == shown[1].systolic
            dia == shown[1].diastolic
        IN  /\ \E k \in 1..5 :
                  /\ Bands[k] = Band(derived.value.dashboard.category)
                  /\ DashboardTest(k, sys, dia)
                  /\ \A j \in 1..(k - 1) : ~DashboardTest(j, sys, dia)
            /\ \E k \in 1..5 :
                  /\ Bands[k] = Band(derived.value.history.category)
                  /\ ListTest(k, sys, dia)
                  /\ \A j \in 1..(k - 1) : ~ListTest(j, sys, dia)

\* The boundary pair (120,80) is High Stage 1 in both views.
C18_Witness ==
    /\ derived.op = "category"
    /\ shown[1].systolic = 120
    /\ shown[1].diastolic = 80
    /\ derived.value.dashboard.category = "High Stage 1"
    /\ derived.value.history.category = "High Stage 1"

\* up above +5, down below -5, flat from -5 to +5.
Direction(delta) ==
    IF delta > 5 THEN "up" ELSE IF delta < -5 THEN "down" ELSE "flat"

\* C19: the trend of a reading against the previous one has the differences
\* current.systolic - previous.systolic and current.diastolic -
\* previous.diastolic, each with direction up above +5, down below -5 and
\* flat otherwise; the oldest reading of the list has no trend.
C19_TrendDeltas ==
    derived.op = "trend" =>
        IF derived.value.isNull THEN derived.index = Len(shown) - 1
        ELSE LET current == shown[derived.index + 1]
                 previous == shown[derived.index + 2]
                 sysDelta == current.systolic - previous.systolic
                 diaDelta == current.diastolic - previous.diastolic
             IN  /\ current.timestamp > previous.timestamp
                 /\ derived.value.systolic.diff = sysDelta
                 /\ derived.value.systolic.icon = Direction(sysDelta)
                 /\ derived.value.diastolic.diff = diaDelta
                 /\ derived.value.diastolic.icon = Direction(diaDelta)

\* Systolic went up by 6 and diastolic by exactly 5: up and flat; and the
\* text of the difference 5 is +5.
C19_Witness ==
    /\ derived.op = "trend"
    /\ ~derived.value.isNull
    /\ derived.value.systolic.diff = 6
    /\ derived.value.systolic.icon = "up"
    /\ derived.value.diastolic.diff = 5
    /\ derived.value.diastolic.icon = "flat"
    /\ derived.value.diastolic.text = << "+", "5" >>

\* ------------------------------------------------------ delete flow properties
\* The stages of the history view's confirmDelete.
DeleteStages == {"deleting", "deleteReloading"}

\* C23: a delete in the history view changes the displayed list only by the
\* reload that follows a successful deleteReading: while the delete is in
\* flight the list is as it was, a failed delete leaves it unchanged and
\* shows the failure alert without a reload, and a successful one is
\* followed by getAllReadings, whose rows become the displayed list.
C23_DeleteShowsAfterConfirmation ==
    [][ /\ (list.stage = "deleting" \/ list'.stage = "deleting") =>
              list'.readings = list.readings
        /\ (list.stage = "deleting" /\ list'.stage # "deleting") =>
              IF call.error = NoError
              THEN /\ list'.stage = "deleteReloading"
                   /\ call'.op = "getAllReadings"
                   /\ call'.stage = "auth"
              ELSE /\ list'.stage = "idle"
                   /\ list'.alert = "Failed to delete reading"
                   /\ call' = call
        /\ (list.stage = "deleteReloading"
              /\ list'.readings # list.readings) =>
              /\ call.op = "getAllReadings"
              /\ call.error = NoError
              /\ list'.readings = call.data
      ]_vars

\* The delete of the displayed reading has succeeded on the server and the
\* reload has answered with the empty list, which is about to be displayed.
C23_Witness ==
    /\ list.stage = "deleteReloading"
    /\ Len(list.readings) = 1
    /\ list.gone = {}
    /\ readings = {}
    /\ call.op = "getAllReadings"
    /\ call.stage = "done"
    /\ call.error = NoError
    /\ call.data = << >>

\* The step in which the view learns how its edit or delete ended, the
\* server having answered the query.
TargetSettles ==
    /\ list.stage \in {"updating", "deleting"}
    /\ list'.stage # list.stage
    /\ call.queries = 1
    /\ call.error # "NetworkError"

\* C24: when an edit or a delete names a reading that is no longer on the
\* server, the user is shown the failure message and the list is reloaded.
C24_VanishedTargetReloads ==
    [][ (TargetSettles /\ list.targetGone) =>
          /\ list'.alert \in {"Failed to update reading",
                              "Failed to delete reading"}
          /\ call'.op = "getAllReadings"
          /\ call'.stage = "auth"
      ]_vars

\* ---------------------------------------------------- categorizer properties
\* The place of a band in Normal < Elevated < High Stage 1 < High Stage 2 <
\* Crisis.
Severity(c) == CHOOSE k \in 1..5 : Bands[k] = Band(c.category)

\* C25: raising systolic by one, or diastolic by one, never gives a band of
\* lower severity, for the dashboard's categorizer and the history view's
\* (raising by more follows step by step).
C25_SeverityMonotone ==
    derived.op = "raised" =>
        \A view \in {"dashboard", "history"} :
            LET c == derived.value[view]
            IN  /\ shown[1].systolic + 1 < SystolicLimit =>
                      Severity(c.sysUp) >= Severity(c.base)
                /\ shown[1].diastolic + 1 < DiastolicLimit =>
                      Severity(c.diaUp) >= Severity(c.base)

\* C26: the dashboard's categorizer and the history view's give every pair
\* of the schema range the same band, Crisis and Hypertensive Crisis being
\* one band.
C26_SameBandInBothViews ==
    derived.op = "category" =>
        Band(derived.value.dashboard.category) =
            Band(derived.value.history.category)

\* ------------------------------------------------------- dashboard properties
\* The user's readings of the range that ends now.
FetchedFor(range) ==
    {r \in readings : /\ r.user_id = session
                      /\ r.timestamp >= clock - DaysBack(range)
                      /\ r.timestamp <= clock}

\* C27: when every load has completed, the load of the range selected last
\* having succeeded, the displayed readings are those of the selected
\* range, whatever the order in which the loads completed.
C27_LatestSelectionShown ==
    (dash.loads = {} /\ dash.effect = "none" /\ dash.latest = "ok") =>
        dash.readings \in Ordered(FetchedFor(dash.selectedRange), TRUE)

\* ---------------------------------------------------- AuthProvider properties
\* No callback of AuthProvider is pending.
Quiescent ==
    /\ auth.check = "done"
    /\ auth.op = "none"
    /\ auth.events = << >>

\* C29: when every pending callback has completed, the last SIGNED_OUT or
\* SIGNED_IN event the listener handled decides the user: null and not
\* authenticated after SIGNED_OUT, the event's session user after SIGNED_IN,
\* also when checkCurrentUser was pending while the event was handled.
C29_LastEventDecidesUser ==
    Quiescent =>
        /\ auth.lastEvent.event = "SIGNED_OUT" =>
              (auth.user = NoUser /\ ~IsAuthenticated)
        /\ auth.lastEvent.event = "SIGNED_IN" =>
              auth.user = auth.lastEvent.user

=============================================================================
